---- MODULE Spec2Model ----
(***************************************************************************)
(* A model of gopherbot's pipeline execution engine: runPipeline/callTask  *)
(* and Robot.AddTask (bot/robot.go), the run registry (registerActive,     *)
(* deregister), the reply-wait table (promptWait) and the environment      *)
(* assembly of a run.                                                      *)
(***************************************************************************)
EXTENDS Integers, Sequences, FiniteSets, TLC

VARIABLES
    \* ---- one pipeline run (a botContext and the locals of runPipeline) ----
    pc,            \* position of the run: start, loop, call, running, exit, done, crashed
    bot,           \* the botContext fields the run uses
    t,             \* runPipeline's t: the task of the current loop iteration
    command,       \* runPipeline's command
    args,          \* runPipeline's args
    isPlugin,      \* runPipeline's isPlugin (reassigned when a task is dequeued)
    plugin,        \* runPipeline's plugin: the *botPlugin of the STARTING task, "nil" for a job
    isJob,         \* runPipeline's isJob
    verbose,       \* runPipeline's verbose
    interactive,   \* runPipeline's interactive parameter
    ptype,         \* runPipeline's ptype parameter
    ret,           \* runPipeline's ret
    errString,     \* runPipeline's errString
    runIndex,      \* runPipeline's runIndex
    histStore,     \* the stored taskHistory of the pipeline's task (the brain)
    storedParams,  \* the stored parameters of each namespace: [exists, env]
    hostEnv,       \* the host process environment (os.Getenv)
    addCalls,      \* number of AddTask calls the run's tasks have made
    lastAdd,       \* the RetVal of the latest AddTask call
    trace,         \* history variable: what the run did, in order
    \* ---- the run registry ----
    botRunID,      \* botRunID.idx
    activeRobots,  \* activeRobots.i : run id -> run
    rpc,           \* per concurrent run: idle, allocated, active, gone
    rid,           \* per concurrent run: c.id
    allocs,        \* number of run ids handed out (bounded)
    \* ---- the environment assembly on its own ----
    envpc,         \* seed, assemble, done
    envIn,         \* the inputs: [isJob, tsParameters, jobParameters]
    \* ---- the reply-wait table ----
    replies,       \* replies.m : matcher -> the list of waiters
    repliesLock,   \* the holder of the replies mutex, "free" when unlocked
    wpc,           \* per caller of promptWait: its position
    wret,          \* per caller: the RetVal it returned
    wsend,         \* per caller: the waiter whose channel it is sending retryPrompt to
    prompted,      \* per caller: the number of times its prompt was sent to the user
    dpending,      \* the sends the message dispatcher still has to make
    msgs,          \* number of incoming messages handled (bounded)
    reqOrder,      \* history: the callers in the order of their requests
    resolved,      \* history: the callers replied to, interrupted, timed out or returned, in that order
    wfired,        \* history, per caller: its timeout has fired
    \* ---- the scheduler ----
    schedItems,    \* robot.scheduledTasks: the configured schedule items
    currentTasks,  \* currentTasks: the task table now in force (a reference)
    schedMutex,    \* the holder of schedMutex, "free" when unlocked
    taskRunner,    \* the handle taskRunner: an index of crons, 0 for nil
    crons,         \* the cron instances ever made, in the order of their creation
    sched,         \* per caller of scheduleTasks: its position and locals
    sruns,         \* the runs started by runScheduledTask, in the order of the firings
    \* ---- the run history of one task ----
    hist,          \* the task's configuration and the history of its runs so far
    \* ---- one call of an external task ----
    extask,        \* what the call meets (paths, pipes, the process) and its outcome
    \* ---- the task identities ----
    taskNameIDmap, \* taskNameIDmap: [m : name -> ID, lock : the holder of the mutex]
    idc,           \* per caller of getTaskID: its position and locals
    idlog,         \* history: the calls, stores and returns of getTaskID, in order
    \* ---- one call of a public prompt operation ----
    prm,           \* the operation, its locals i, rep, ret, and the waits it has made
    \* ---- one external task of a run with a history logger ----
    lrun,          \* the streams, the two readers, callTask's position and the log
    \* ---- calls of Robot.AddTask on one queue ----
    addq           \* the queue, and the arguments and the result of the last call

pipeVars == <<pc, bot, t, command, args, isPlugin, plugin, isJob, verbose,
              interactive, ptype, ret, errString, runIndex, histStore,
              storedParams, hostEnv, addCalls, lastAdd, trace>>
regVars  == <<botRunID, activeRobots>>
runVars  == <<rpc, rid, allocs>>
envVars  == <<envpc, envIn>>
replyVars == <<replies, repliesLock, wpc, wret, wsend, prompted, dpending, msgs,
               reqOrder, resolved, wfired>>
schedVars == <<schedItems, currentTasks, schedMutex, taskRunner, crons, sched, sruns>>
histVars == <<hist>>
execVars == <<extask>>
idVars   == <<taskNameIDmap, idc, idlog>>
promptVars == <<prm>>
logVars  == <<lrun>>
addVars  == <<addq>>
vars     == <<pipeVars, regVars, runVars, envVars, replyVars, schedVars, histVars, execVars,
              idVars, promptVars, logVars, addVars>>

----------------------------------------------------------------------------
(* Bounds of the model *)

\* AddTask calls that one run may make
MaxAddTask == 2
\* width in bits of the run-id counter (the Go int, scaled down)
IdBits == 3
\* parameters of a scheduled entry and of a job in the environment specification
MaxParams == 2
\* incoming messages the dispatcher handles in the reply specification
MaxMsgs == 2
\* runs of the task, and the largest HistoryLogs, in the history specification
MaxRuns == 5
MaxHistoryLogs == 3
\* cron instances made by scheduleTasks in the scheduler specification
MaxCrons == 2
\* firings of schedule entries in the scheduler specification
MaxFires == 2
\* AddTask calls of one scheduled run in the scheduler specification
MaxSchedAdd == 1

\* the number of getTaskID calls
MaxIdCalls == 3
\* the lines an external task writes to one stream in the logger specification
MaxLines == 2

----------------------------------------------------------------------------
(* The task registry snapshot of a run: bot/tasks.go botTask, botPlugin, botJob *)

TaskTable ==
    [ admin |-> [ kind |-> "plugin", taskType |-> "go",       AdminCommands |-> <<"delete">>,
                  Disabled |-> FALSE, HistoryLogs |-> 0, Verbose |-> FALSE,
                  NameSpace |-> "admin", Parameters |-> << >> ],
      echo  |-> [ kind |-> "plugin", taskType |-> "external", AdminCommands |-> << >>,
                  Disabled |-> FALSE, HistoryLogs |-> 0, Verbose |-> FALSE,
                  NameSpace |-> "echo", Parameters |-> << >> ],
      build |-> [ kind |-> "job",    taskType |-> "external", AdminCommands |-> << >>,
                  Disabled |-> FALSE, HistoryLogs |-> 1, Verbose |-> TRUE,
                  NameSpace |-> "build",
                  Parameters |-> << [Name |-> "k", Value |-> "job"],
                                    [Name |-> "GOPHER_CHANNEL", Value |-> "job"] >> ],
      off   |-> [ kind |-> "plugin", taskType |-> "go",       AdminCommands |-> << >>,
                  Disabled |-> TRUE,  HistoryLogs |-> 0, Verbose |-> FALSE,
                  NameSpace |-> "off", Parameters |-> << >> ] ]

TaskNames == DOMAIN TaskTable

\* getTask: the (*botTask, *botPlugin, *botJob) of a task; a nil pointer is "nil"
getTaskPlugin(name) == IF TaskTable[name].kind = "plugin" THEN name ELSE "nil"
getTaskJob(name)    == IF TaskTable[name].kind = "job" THEN name ELSE "nil"

\* taskList.getTaskByName: the task of a name in the snapshot, "nil" if absent
getTaskByName(name) == IF name \in TaskNames THEN name ELSE "nil"

\* robot.adminUsers
adminUsers == <<"alice">>
Users == {"alice", "bob"}

\* Robot.CheckAdmin
CheckAdmin_always(user) == TRUE
CheckAdmin(user) == \E i \in 1..Len(adminUsers) : user = adminUsers[i]

\* the scan of plugin.AdminCommands for the command (robot.go 505-511)
AdminRequired_never(p, cmd) == FALSE
AdminRequired(p, cmd) ==
    \E i \in 1..Len(TaskTable[p].AdminCommands) : cmd = TaskTable[p].AdminCommands[i]

\* outcomes of tasks (TaskRetVal) and of the authorization / elevation checks
TaskRetVals == {"Normal", "Fail", "MechanismFail", "ConfigurationError", "Success"}
\* what a native handler or an external process returns in the model
HandlerRetVals == {"Normal", "Fail"}
CheckResults == {"Success", "Fail"}

Commands == {"delete", "list"}
\* the cmdargs a task passes to AddTask
CmdArgs == { << >>, <<"">>, <<"delete", "x">> }

Ev(e, task, cmd, res, flag) == [e |-> e, task |-> task, cmd |-> cmd, res |-> res, flag |-> flag]

----------------------------------------------------------------------------
(* Environment maps: Go map[string]string as functions on a set of keys *)

EmptyEnv == [k \in {} |-> ""]

\* "_, exists := env[k]; if !exists { env[k] = v }"
SetDefault_overwrite(env, k, v) == (k :> v) @@ env
SetDefault(env, k, v) == IF k \in DOMAIN env THEN env ELSE env @@ (k :> v)

\* "env[k] = v"
SetKey(env, k, v) == (k :> v) @@ env

\* robot.go 464-470: the job's fixed parameters, in list order
RECURSIVE MergeJobParameters(_, _)
MergeJobParameters(env, params) ==
    IF params = << >> THEN env
    ELSE MergeJobParameters(SetDefault(env, Head(params).Name, Head(params).Value),
                            Tail(params))

\* robot.go 476-482: the stored parameters of the namespace, for keys not yet set
MergeStoredEnv_overwrite(env, stored) == stored @@ env
MergeStoredEnv(env, stored) == env @@ stored

\* robot.go 376-383
envPassThrough == <<"HOME", "HOSTNAME", "LANG", "PATH", "USER">>

\* os.Getenv: the empty string for a variable the host does not define
Getenv(host, p) == IF p \in DOMAIN host THEN host[p] ELSE ""

\* robot.go 485-491
RECURSIVE MergePassThrough(_, _, _)
MergePassThrough(env, names, host) ==
    IF names = << >> THEN env
    ELSE MergePassThrough(SetDefault(env, Head(names), Getenv(host, Head(names))),
                          Tail(names), host)

\* robot.go 463-491: the environment assembly of runPipeline. env is the
\* environment already on the context (the dynamically pre-set parameters).
AssembleEnvironment(env, jobParams, stored, host) ==
    LET e1 == MergeJobParameters(env, jobParams)
        e2 == IF stored.exists THEN MergeStoredEnv(e1, stored.env) ELSE e1
    IN  MergePassThrough(e2, envPassThrough, host)

\* runScheduledTask 75-83: a scheduled job's parameters seed the environment
RECURSIVE SeedParameters(_, _)
SeedParameters(env, params) ==
    IF params = << >> THEN env
    ELSE SeedParameters(SetKey(env, Head(params).Name, Head(params).Value), Tail(params))

----------------------------------------------------------------------------
(* The run registry: botRunID and activeRobots *)

MaxInt == 2^(IdBits - 1) - 1
MinInt == 0 - 2^(IdBits - 1)
RunIDs == MinInt..MaxInt
\* the registry specification hands out fewer ids than the counter has values,
\* as a program does with a 64-bit counter
MaxAllocs == 2^IdBits - 2

\* Go's int addition wraps around
WrapInt(n) == IF n > MaxInt THEN n - 2^IdBits ELSE n

\* registerActive 61-64: botRunID.idx++, and 0 is skipped
NextRunID_nobump(idx) == WrapInt(idx + 1)
NextRunID(idx) == LET n == WrapInt(idx + 1) IN IF n = 0 THEN 1 ELSE n

\* registerActive 74-76: activeRobots.i[c.id] = c
RegisterRun(reg, id, c) == (id :> c) @@ reg

\* deregister: delete(activeRobots.i, c.id)
DeregisterRun(reg, id) == [k \in (DOMAIN reg) \ {id} |-> reg[k]]

\* getBotContextInt: the run of an id, "nil" when there is none
getBotContextInt(idx) == IF idx \in DOMAIN activeRobots THEN activeRobots[idx] ELSE "nil"

\* the id strings a caller of the HTTP interface sends: decimal numbers
\* within and beyond the range of int, and strings that are no number
IdStrings ==
    { ToString(n) : n \in (MinInt - 1)..(MaxInt + 1) } \cup {"", "x"}

\* strconv.Atoi: the value of a decimal string; for a number beyond the range
\* of int the nearest int, for any other string 0, both with an error
Atoi(str) ==
    IF \E n \in RunIDs : ToString(n) = str
    THEN [val |-> CHOOSE n \in RunIDs : ToString(n) = str, err |-> FALSE]
    ELSE IF str = ToString(MaxInt + 1) THEN [val |-> MaxInt, err |-> TRUE]
    ELSE IF str = ToString(MinInt - 1) THEN [val |-> MinInt, err |-> TRUE]
    ELSE [val |-> 0, err |-> TRUE]

\* getBotContextStr 34-40: "idx, _ := strconv.Atoi(id)", then the map lookup
getBotContextStr(id) == getBotContextInt(Atoi(id).val)

\* registerActive 57-72: the variables registerActive sets on the context
RegisterEnv(env, id) ==
    SetKey(SetKey(SetKey(SetKey(env, "GOPHER_HTTP_POST", "http://port"),
                         "GOPHER_INSTALLDIR", "installPath"),
                  "GOPHER_CONFIGDIR", "configPath"),
           "GOPHER_CALLER_ID", ToString(id))

----------------------------------------------------------------------------
(* Run history: bot/history.go taskHistory, robot.go 413-456 *)

\* robot.go 431-441: the new run's entry is appended, the oldest beyond
\* rememberRuns are dropped
RecordRun_oldest(th, rememberRuns) ==
    LET hs == Append(th.Histories, [LogIndex |-> th.NextIndex])
    IN  [ NextIndex |-> th.NextIndex + 1,
          Histories |-> IF Len(hs) > rememberRuns THEN SubSeq(hs, 1, rememberRuns) ELSE hs ]
RecordRun(th, rememberRuns) ==
    LET hs == Append(th.Histories, [LogIndex |-> th.NextIndex])
        l  == Len(hs)
    IN  [ NextIndex |-> th.NextIndex + 1,
          Histories |-> IF l > rememberRuns THEN SubSeq(hs, l - rememberRuns + 1, l) ELSE hs ]

\* robot.go 428: "runIndex = th.NextIndex"
TakeIndex_zero(th) == 0
TakeIndex(th) == th.NextIndex

----------------------------------------------------------------------------
(* One pipeline run: botContext.runPipeline, botContext.callTask, Robot.AddTask *)

\* what started the pipeline (tasks.go pipelineType) and what the caller passes
\* with it: a plugin command and "run job" are interactive (robot.go 385-388),
\* a scheduled run bypasses the security checks (runScheduledTask)
Triggers == {"plugCommand", "jobTrigger", "scheduled", "runJob"}

TriggerFits(trig, task) ==
    CASE trig = "plugCommand" -> TaskTable[task].kind = "plugin"
      [] trig = "jobTrigger"  -> TaskTable[task].kind = "job"
      [] trig = "runJob"      -> TaskTable[task].kind = "job"
      [] OTHER                -> TRUE

\* runScheduledTask 72: the context of a scheduled run has bypassSecurityChecks
\* set; the contexts of the other callers leave it false
BypassSecurity_never(trig) == FALSE
BypassSecurity(trig) == trig = "scheduled"

\* the parameters a caller has put on the context before runPipeline: a job
\* trigger stores its matches, a scheduled job its configured parameters
DynEnv(trig, task) ==
    CASE trig = "jobTrigger" ->
            ("k" :> "dyn") @@ ("GOPHER_USER" :> "dyn") @@ ("GOPHER_CALLER_ID" :> "dyn")
      [] trig = "scheduled" /\ TaskTable[task].kind = "job" ->
            SeedParameters(EmptyEnv, << [Name |-> "PATH", Value |-> "dyn"] >>)
      [] OTHER -> EmptyEnv

\* exit codes of an external task in the model, and TaskRetVal(status.ExitStatus())
ExitCodes == {0, 1, 7}
TaskRetValOf(code) ==
    CASE code = 0 -> "Normal"
      [] code = 1 -> "Fail"
      [] code = 2 -> "MechanismFail"
      [] code = 3 -> "ConfigurationError"
      [] code = 7 -> "Success"
      [] OTHER    -> "Other"

\* checkoutDatum(paramPrefix+namespace, ...): the stored parameters per namespace
NameSpaces == { TaskTable[n].NameSpace : n \in TaskNames }
NoStoredParams == [ns \in NameSpaces |-> [exists |-> FALSE, env |-> EmptyEnv]]
SomeStoredParams ==
    [ns \in NameSpaces |->
        IF ns \in {"build", "admin"}
        THEN [exists |-> TRUE, env |-> ("k" :> "stored") @@ ("PATH" :> "stored")
                                         @@ ("GOPHER_PROTOCOL" :> "stored")]
        ELSE IF ns = "echo"
        THEN [exists |-> TRUE, env |-> ("e" :> "stored") @@ ("GOPHER_PROTOCOL" :> "stored")]
        ELSE [exists |-> FALSE, env |-> EmptyEnv]]

\* the concurrent runs of the registry specification
RunNames == {"r1", "r2", "r3"}

Last(q) == q[Len(q)]

\* the callers of promptWait, all for the one matcher (user, channel)
Waiters == {"w1", "w2", "w3"}
Matchers == {"m"}
NoReplies == [m \in {} |-> << >>]

\* the history specification: HistoryLogs and kind of the task, the number
\* of its runs, whether every checkout and update of the store succeeded, and
\* the run index of each run with the results of its checkout and update
NoHist == [HistoryLogs |-> 0, isJob |-> FALSE, runs |-> 0, allOk |-> TRUE, given |-> << >>]

\* the external-task specification: no call
NoExec == [pc |-> "off", in |-> << >>, retval |-> 0]

\* the AddTask specification: no call yet, on an empty queue
NoAdd == [calls |-> 0, queue |-> << >>, name |-> "", cmdargs |-> << >>, ret |-> ""]

\* no task has an ID yet, nobody calls getTaskID
NoIDs == [m |-> EmptyEnv, lock |-> "free"]
IdCallers == {"g1", "g2"}
IdleCaller == [pc |-> "idle", plug |-> "", taskID |-> ""]

\* no external task is being logged
Streams == {"stdout", "stderr"}
NoLogRun == [pc |-> "off", halfClosed |-> FALSE,
             lines |-> [s \in Streams |-> 0], failAt |-> [s \in Streams |-> 0],
             read |-> [s \in Streams |-> 0], rpc |-> [s \in Streams |-> "off"],
             log |-> << >>]

\* no prompt operation is under way
NoPrompt == [pc |-> "off", op |-> "", i |-> 0, rep |-> "", ret |-> "Ok", waits |-> 0,
             rets |-> << >>, in |-> << >>, out |-> << >>,
             re |-> [nil |-> TRUE, matches |-> {}], via |-> "", entry |-> FALSE]

\* the concurrent callers of scheduleTasks
SchedCallers == {"s1", "s2"}
IdleSched == [pc |-> "off", i |-> 0, tasks |-> "nil", scheduled |-> << >>]

NoEnvIn == [isJob |-> FALSE, tsParameters |-> << >>, jobParameters |-> << >>]

NoTaskSpec == [Name |-> "", Command |-> "", Arguments |-> << >>, task |-> "nil"]

PipeInit ==
    /\ pc = "start"
    /\ \E st \in TaskNames, trig \in Triggers, u \in Users :
          /\ ~TaskTable[st].Disabled
          /\ TriggerFits(trig, st)
          /\ t = st
          /\ ptype = trig
          /\ interactive = (trig \in {"plugCommand", "runJob"})
          /\ command \in (IF TaskTable[st].kind = "plugin" THEN Commands ELSE {"run"})
          /\ bot = [ User |-> u,
                     bypassSecurityChecks |-> BypassSecurity(trig),
                     elevated |-> FALSE,
                     environment |-> DynEnv(trig, st),
                     pipeStarting |-> FALSE,
                     nextTasks |-> << >>,
                     id |-> 0,
                     logger |-> "nil",
                     pipeName |-> "",
                     NameSpace |-> "",
                     currentTask |-> "nil",
                     taskName |-> "",
                     osCmd |-> "nil",
                     cmdEnv |-> EmptyEnv ]
    /\ args = << >>
    /\ isPlugin = FALSE
    /\ plugin = "nil"
    /\ isJob = FALSE
    /\ verbose = FALSE
    /\ ret = "Normal"
    /\ errString = ""
    /\ runIndex = 0
    /\ addCalls = 0
    /\ lastAdd = ""
    /\ histStore = [NextIndex |-> 1, Histories |-> << [LogIndex |-> 0] >>]
    /\ storedParams = SomeStoredParams
    /\ hostEnv = ("PATH" :> "host") @@ ("HOME" :> "host")
    /\ trace = << >>
    /\ botRunID \in {0 - 1, MaxInt}
    /\ activeRobots = (botRunID :> "other")
    /\ rpc = [r \in RunNames |-> "idle"]
    /\ rid = [r \in RunNames |-> 0]
    /\ allocs = 0
    /\ envpc = "off"
    /\ envIn = NoEnvIn
    /\ replies = NoReplies
    /\ repliesLock = "free"
    /\ wpc = [w \in Waiters |-> "off"]
    /\ wret = [w \in Waiters |-> ""]
    /\ wsend = [w \in Waiters |-> "nil"]
    /\ prompted = [w \in Waiters |-> 0]
    /\ dpending = << >>
    /\ msgs = 0
    /\ reqOrder = << >>
    /\ resolved = << >>
    /\ wfired = [w \in Waiters |-> FALSE]
    /\ schedItems = << >>
    /\ currentTasks = "v1"
    /\ schedMutex = "free"
    /\ taskRunner = 0
    /\ crons = << >>
    /\ sched = [c \in SchedCallers |-> IdleSched]
    /\ sruns = << >>
    /\ taskNameIDmap = NoIDs
    /\ addq = NoAdd
    /\ idc = [c \in IdCallers |-> IdleCaller]
    /\ idlog = << >>
    /\ prm = NoPrompt
    /\ lrun = NoLogRun
    /\ hist = NoHist
    /\ extask = NoExec

\* robot.go 389-501: the start of runPipeline up to the loop
RunPipelineStart ==
    /\ pc = "start"
    /\ LET task   == TaskTable[t]
           plug   == getTaskPlugin(t)
           isP    == plug # "nil"
           isJ    == ~isP
           verb   == (isJ /\ task.Verbose) \/ ptype = "runJob"
           newid  == NextRunID(botRunID)
           env1   == AssembleEnvironment(bot.environment,
                                         IF isJ THEN task.Parameters ELSE << >>,
                                         storedParams[task.NameSpace], hostEnv)
           remember == IF task.HistoryLogs = 0 THEN 1 ELSE task.HistoryLogs
       IN
       \E checkoutOk \in BOOLEAN, updateOk \in BOOLEAN, historyOk \in BOOLEAN :
          LET withHist == task.HistoryLogs > 0 \/ isJ
              ridx   == IF withHist /\ checkoutOk THEN histStore.NextIndex ELSE 0
              stored == withHist /\ checkoutOk /\ updateOk
              lg     == IF stored /\ task.HistoryLogs > 0 /\ historyOk THEN "logger" ELSE "nil"
          IN
          \* the outcomes below matter only where the code asks for them
          /\ (~withHist => checkoutOk /\ updateOk /\ historyOk)
          /\ (~checkoutOk => updateOk /\ historyOk)
          /\ (~(stored /\ task.HistoryLogs > 0) => historyOk)
          /\ runIndex' = ridx
          /\ histStore' = IF stored THEN RecordRun(histStore, remember) ELSE histStore
          /\ isPlugin' = isP
          /\ plugin' = plug
          /\ isJob' = isJ
          /\ verbose' = verb
          /\ botRunID' = newid
          /\ activeRobots' = RegisterRun(activeRobots, newid, "bot")
          /\ bot' = [bot EXCEPT !.pipeName = t,
                                !.NameSpace = task.NameSpace,
                                !.logger = lg,
                                !.environment = RegisterEnv(env1, newid),
                                !.pipeStarting = TRUE,
                                !.nextTasks = << >>,
                                !.id = newid]
          /\ trace' = IF verb
                       THEN << Ev("start", t, command, "", FALSE),
                               Ev("msg", t, "", "starting", FALSE) >>
                       ELSE << Ev("start", t, command, "", FALSE) >>
          /\ pc' = "loop"
    /\ UNCHANGED <<t, command, args, interactive, ptype, ret, errString, addCalls, lastAdd,
                   storedParams, hostEnv, runVars, envVars, replyVars, schedVars, histVars, execVars, idVars, promptVars, logVars, addVars>>

\* robot.go 554: any outcome other than Normal ends the chain
ChainHalts_never(r) == FALSE
ChainHalts(r) == r # "Normal"

\* robot.go 562: ts, bot.nextTasks = bot.nextTasks[0], bot.nextTasks[1:]
NextTask_last(q) == q[Len(q)]
NextTask(q) == q[1]
RestTasks_keep(q) == q
RestTasks(q) == Tail(q)

\* Robot.AddTask 116: c.nextTasks = append(c.nextTasks, ts)
Enqueue_front(q, ts) == <<ts>> \o q
Enqueue(q, ts) == Append(q, ts)

\* robot.go 555: "if interactive && errString != """
ReplyError_always(inter, es) == es # ""
ReplyError(inter, es) == inter /\ es # ""

\* robot.go 552-576: what runPipeline does with the outcome of callTask. b is
\* the context and evs the trace as callTask left them.
AfterCall(b, es, r, evs0) ==
    LET evs == Append(evs0, Ev("return", t, command, r, FALSE)) IN
    /\ errString' = es
    /\ ret' = r
    /\ IF ChainHalts(r)
       THEN /\ trace' = IF ReplyError(interactive, es)
                        THEN Append(evs, Ev("msg", t, es, "error", FALSE)) ELSE evs
            /\ pc' = "exit"
            /\ bot' = b
            /\ UNCHANGED <<t, command, args, isPlugin>>
       ELSE IF Len(b.nextTasks) > 0
       THEN LET ts == NextTask(b.nextTasks)
                isP == getTaskPlugin(ts.task) # "nil"
            IN  /\ bot' = [b EXCEPT !.nextTasks = RestTasks(b.nextTasks)]
                /\ isPlugin' = isP
                /\ command' = IF isP THEN ts.Command ELSE "run"
                /\ args' = IF isP THEN ts.Arguments ELSE << >>
                /\ t' = ts.task
                /\ trace' = evs
                /\ pc' = "loop"
       ELSE /\ trace' = evs
            /\ pc' = "exit"
            /\ bot' = b
            /\ UNCHANGED <<t, command, args, isPlugin>>


\* robot.go 521 and 527: a check lets the task through only with Success
CheckPassed_lenient(res) == TRUE
CheckPassed(res) == res = "Success"

\* robot.go 531-533: "if required { bot.elevated = true }"
Elevate_always(b, required) == [b EXCEPT !.elevated = TRUE]
Elevate(b, required) == IF required THEN [b EXCEPT !.elevated = TRUE] ELSE b

\* robot.go 502-535: the admin-command check, authorization and elevation of
\* one loop iteration. The outcomes of checkAuthorization and checkElevation
\* are inputs.
SecurityChecks ==
    /\ pc = "loop"
    /\ IF isPlugin /\ plugin = "nil"
       THEN \* len(plugin.AdminCommands) on a nil *botPlugin: a nil dereference
            /\ pc' = "crashed"
            /\ UNCHANGED <<bot, ret, trace>>
       ELSE
       LET adminReq == isPlugin /\ Len(TaskTable[plugin].AdminCommands) > 0
                                /\ AdminRequired(plugin, command)
           isAdmin  == CheckAdmin(bot.User)
           ev0 == IF adminReq
                  THEN Append(trace, Ev("admin", t, command,
                                        IF isAdmin THEN "passed" ELSE "failed", FALSE))
                  ELSE trace
       IN
       IF adminReq /\ ~isAdmin
       THEN /\ trace' = Append(ev0, Ev("msg", t, command, "denied", FALSE))
            /\ ret' = "Fail"
            /\ pc' = "exit"
            /\ UNCHANGED bot
       ELSE IF bot.bypassSecurityChecks
       THEN /\ trace' = ev0
            /\ pc' = "call"
            /\ UNCHANGED <<bot, ret>>
       ELSE
       \E aret \in CheckResults, eret \in CheckResults, required \in BOOLEAN :
          LET ev1 == Append(ev0, Ev("auth", t, command, aret, FALSE))
              ev2 == Append(ev1, Ev("elev", t, command, eret, required))
              elevAsked == CheckPassed(aret) /\ ~bot.elevated
          IN
          \* the elevation outcome matters only when elevation is checked
          /\ (~elevAsked => eret = "Success" /\ ~required)
          /\ (eret # "Success" => ~required)
          /\ IF ~CheckPassed(aret)
             THEN /\ trace' = ev1
                  /\ ret' = "Fail"
                  /\ pc' = "exit"
                  /\ UNCHANGED bot
             ELSE IF bot.elevated
             THEN /\ trace' = ev1
                  /\ pc' = "call"
                  /\ UNCHANGED <<bot, ret>>
             ELSE IF ~CheckPassed(eret)
             THEN /\ trace' = ev2
                  /\ ret' = "Fail"
                  /\ pc' = "exit"
                  /\ UNCHANGED bot
             ELSE /\ trace' = ev2
                  /\ bot' = Elevate(bot, required)
                  /\ pc' = "call"
                  /\ UNCHANGED ret
    /\ UNCHANGED <<t, command, args, isPlugin, plugin, isJob, verbose, interactive,
                   ptype, errString, runIndex, histStore, storedParams, hostEnv,
                   addCalls, lastAdd, regVars, runVars, envVars, replyVars, schedVars, histVars, execVars, idVars, promptVars, logVars, addVars>>

\* callTask 599: the message of a disabled task, with its internal reason
DisabledMsg == "callTask failed on disabled task; reason: internal"
MechanismMsg == "There were errors calling external plugin"
StderrMsg == "There was error output while calling external task"

\* callTask 660-699: the environment of the external process
ProcessEnv_keep(b, task) ==
    LET envhash == b.environment
        merged  == IF ~b.pipeStarting /\ storedParams[task.NameSpace].exists
                   THEN MergeStoredEnv(envhash, storedParams[task.NameSpace].env)
                   ELSE envhash
    IN  SetDefault(SetDefault(SetDefault(merged, "GOPHER_CHANNEL", "channel"),
                              "GOPHER_USER", b.User),
                   "GOPHER_PROTOCOL", "protocol")
ProcessEnv(b, task) ==
    LET envhash == b.environment
        merged  == IF ~b.pipeStarting /\ storedParams[task.NameSpace].exists
                   THEN MergeStoredEnv(envhash, storedParams[task.NameSpace].env)
                   ELSE envhash
    IN  SetKey(SetKey(SetKey(merged, "GOPHER_CHANNEL", "channel"),
                      "GOPHER_USER", b.User),
               "GOPHER_PROTOCOL", "protocol")

\* robot.go 551, callTask 592-724: callTask up to the handler call or the
\* start of the external process
CallTask ==
    /\ pc = "call"
    /\ LET task == TaskTable[t]
           b0   == [bot EXCEPT !.currentTask = t]
           ev0  == Append(trace, Ev("call", t, command, "", FALSE))
           ev1  == IF bot.logger # "nil"
                   THEN Append(ev0, Ev("section", t, "", "", FALSE)) ELSE ev0
       IN
       IF task.Disabled
       THEN AfterCall(b0, DisabledMsg, "ConfigurationError", ev0)
       ELSE IF getTaskPlugin(t) # "nil" /\ task.taskType = "go"
       THEN /\ bot' = b0
            /\ trace' = Append(ev1, Ev("exec", t, command, "go", FALSE))
            /\ pc' = "running"
            /\ UNCHANGED <<t, command, args, isPlugin, ret, errString>>
       ELSE
       \E mech \in {"ok", "nopath", "nostart"} :
          LET b1 == [b0 EXCEPT !.taskName = t,
                               !.osCmd = t,
                               !.pipeStarting = FALSE,
                               !.cmdEnv = ProcessEnv(b0, task)]
          IN
          CASE mech = "nopath"  -> AfterCall(b0, MechanismMsg, "MechanismFail", ev1)
            [] mech = "nostart" -> AfterCall(b1, MechanismMsg, "MechanismFail", ev1)
            [] OTHER ->
                  /\ bot' = b1
                  /\ trace' = Append(ev1, Ev("exec", t, command, "external", FALSE))
                  /\ pc' = "running"
                  /\ UNCHANGED <<t, command, args, isPlugin, ret, errString>>
    /\ UNCHANGED <<plugin, isJob, verbose, interactive, ptype, runIndex, histStore,
                   storedParams, hostEnv, addCalls, lastAdd, regVars, runVars, envVars, replyVars, schedVars, histVars, execVars, idVars, promptVars, logVars, addVars>>

\* Robot.AddTask (robot.go 88-118): the RetVal and the new queue
AddTask(q, name, cmdargs) ==
    LET tk == getTaskByName(name)
    IN  IF tk = "nil" THEN [ret |-> "TaskNotFound", queue |-> q]
        ELSE IF getTaskPlugin(tk) # "nil"
        THEN IF Len(cmdargs) = 0 THEN [ret |-> "MissingArguments", queue |-> q]
             ELSE IF Len(cmdargs[1]) = 0 THEN [ret |-> "MissingArguments", queue |-> q]
             ELSE [ret |-> "Ok",
                   queue |-> Enqueue(q, [Name |-> name, Command |-> cmdargs[1],
                                         Arguments |-> Tail(cmdargs), task |-> tk])]
        ELSE [ret |-> "Ok",
              queue |-> Enqueue(q, [Name |-> name, Command |-> "run",
                                    Arguments |-> << >>, task |-> tk])]

\* the running task calls Robot.AddTask; its context is found in the registry
TaskAddTask ==
    /\ pc = "running"
    /\ addCalls < MaxAddTask
    /\ getBotContextInt(bot.id) = "bot"
    /\ \E name \in TaskNames \cup {"nosuch"}, cmdargs \in CmdArgs :
          LET res == AddTask(bot.nextTasks, name, cmdargs)
          IN  /\ bot' = [bot EXCEPT !.nextTasks = res.queue]
              /\ lastAdd' = res.ret
              /\ trace' = IF res.ret = "Ok"
                           THEN Append(trace, Ev("add", name, Last(res.queue).Command, "", FALSE))
                           ELSE trace
    /\ addCalls' = addCalls + 1
    /\ UNCHANGED <<pc, t, command, args, isPlugin, plugin, isJob, verbose, interactive,
                   ptype, ret, errString, runIndex, histStore, storedParams, hostEnv,
                   regVars, runVars, envVars, replyVars, schedVars, histVars, execVars, idVars, promptVars, logVars, addVars>>

\* callTask 623 and 728-788: the native handler returns, or the external
\* process ends and its exit status becomes the outcome
TaskReturn ==
    /\ pc = "running"
    /\ IF TaskTable[t].taskType = "go" /\ getTaskPlugin(t) # "nil"
       THEN \E r \in HandlerRetVals :
               AfterCall(bot, "", r, trace)
       ELSE \E code \in ExitCodes, stderrOut \in BOOLEAN, readOk \in BOOLEAN :
               LET r  == TaskRetValOf(code)
                   es == IF code # 0 /\ r # "Success" THEN MechanismMsg
                         ELSE IF bot.logger = "nil" /\ stderrOut THEN StderrMsg
                         ELSE ""
               IN  /\ (bot.logger # "nil" => readOk)
                   /\ (~readOk => code = 0 /\ ~stderrOut)
                   /\ IF ~readOk
                      THEN AfterCall(bot, MechanismMsg, "MechanismFail", trace)
                      ELSE AfterCall(bot, es, r, trace)
    /\ UNCHANGED <<plugin, isJob, verbose, interactive, ptype, runIndex, histStore,
                   storedParams, hostEnv, addCalls, lastAdd, regVars, runVars, envVars, replyVars, schedVars, histVars, execVars, idVars, promptVars, logVars, addVars>>

\* callTask 614-616: a panic in a native handler is recovered by the deferred
\* checkPanic; callTask then returns the zero values of its named results
TaskPanic ==
    /\ pc = "running"
    /\ TaskTable[t].taskType = "go" /\ getTaskPlugin(t) # "nil"
    /\ AfterCall(bot, "", "Normal", Append(trace, Ev("panic", t, command, "", FALSE)))
    /\ UNCHANGED <<plugin, isJob, verbose, interactive, ptype, runIndex, histStore,
                   storedParams, hostEnv, addCalls, lastAdd, regVars, runVars, envVars, replyVars, schedVars, histVars, execVars, idVars, promptVars, logVars, addVars>>

\* robot.go 582: "if ret == Normal && verbose"
AnnounceFinished(r, verb) == r = "Normal" /\ verb

\* robot.go 585: "if ret != Normal && isJob"
ReportFailure_any(r, job) == r # "Normal"
ReportFailure(r, job) == r # "Normal" /\ job

\* robot.go 577-588: the end of runPipeline; the messages carry the run index
RunPipelineEnd ==
    /\ pc = "exit"
    /\ activeRobots' = DeregisterRun(activeRobots, bot.id)
    /\ LET ev0 == IF bot.logger # "nil"
                  THEN Append(trace, Ev("close", "", "", "", FALSE)) ELSE trace
           ev1 == IF AnnounceFinished(ret, verbose)
                  THEN Append(ev0, Ev("msg", bot.pipeName, runIndex, "finished", FALSE))
                  ELSE ev0
           ev2 == IF ReportFailure(ret, isJob)
                  THEN Append(ev1, Ev("msg", t, runIndex, "failed", FALSE)) ELSE ev1
       IN  trace' = ev2
    /\ pc' = "done"
    /\ UNCHANGED <<bot, t, command, args, isPlugin, plugin, isJob, verbose, interactive,
                   ptype, ret, errString, runIndex, histStore, storedParams, hostEnv,
                   addCalls, lastAdd, botRunID, runVars, envVars, replyVars, schedVars, histVars, execVars, idVars, promptVars, logVars, addVars>>

PipeNext ==
    \/ RunPipelineStart
    \/ SecurityChecks
    \/ CallTask
    \/ TaskAddTask
    \/ TaskReturn
    \/ TaskPanic
    \/ RunPipelineEnd

Spec == PipeInit /\ [][PipeNext]_vars

----------------------------------------------------------------------------
(* Concurrent runs and the run registry: every run calls registerActive,   *)
(* executes, and calls deregister. registerActive takes the botRunID lock  *)
(* for the id (60-73) and then the activeRobots lock for the map (74-76).  *)

\* a context that runs no pipeline
IdleBot ==
    [ User |-> "", bypassSecurityChecks |-> FALSE, elevated |-> FALSE,
      environment |-> EmptyEnv, pipeStarting |-> FALSE, nextTasks |-> << >>, id |-> 0,
      logger |-> "nil", pipeName |-> "", NameSpace |-> "", currentTask |-> "nil",
      taskName |-> "", osCmd |-> "nil", cmdEnv |-> EmptyEnv ]

RegInit ==
    /\ botRunID \in 0..MaxInt
    /\ activeRobots = [i \in {} |-> "nil"]
    /\ rpc = [r \in RunNames |-> "idle"]
    /\ rid = [r \in RunNames |-> 0]
    /\ allocs = 0
    /\ envpc = "off"
    /\ envIn = NoEnvIn
    /\ replies = NoReplies
    /\ repliesLock = "free"
    /\ wpc = [w \in Waiters |-> "off"]
    /\ wret = [w \in Waiters |-> ""]
    /\ wsend = [w \in Waiters |-> "nil"]
    /\ prompted = [w \in Waiters |-> 0]
    /\ dpending = << >>
    /\ msgs = 0
    /\ reqOrder = << >>
    /\ resolved = << >>
    /\ wfired = [w \in Waiters |-> FALSE]
    /\ schedItems = << >>
    /\ currentTasks = "v1"
    /\ schedMutex = "free"
    /\ taskRunner = 0
    /\ crons = << >>
    /\ sched = [c \in SchedCallers |-> IdleSched]
    /\ sruns = << >>
    /\ taskNameIDmap = NoIDs
    /\ addq = NoAdd
    /\ idc = [c \in IdCallers |-> IdleCaller]
    /\ idlog = << >>
    /\ prm = NoPrompt
    /\ lrun = NoLogRun
    /\ hist = NoHist
    /\ extask = NoExec
    /\ pc = "off"
    /\ bot = IdleBot
    /\ t = "nil"
    /\ command = ""
    /\ args = << >>
    /\ isPlugin = FALSE
    /\ plugin = "nil"
    /\ isJob = FALSE
    /\ verbose = FALSE
    /\ interactive = FALSE
    /\ ptype = "plugCommand"
    /\ ret = "Normal"
    /\ errString = ""
    /\ runIndex = 0
    /\ histStore = [NextIndex |-> 0, Histories |-> << >>]
    /\ storedParams = NoStoredParams
    /\ hostEnv = EmptyEnv
    /\ addCalls = 0
    /\ lastAdd = ""
    /\ trace = << >>

\* registerActive 60-73, under the botRunID lock
RegisterActiveID(r) ==
    /\ rpc[r] = "idle"
    /\ allocs < MaxAllocs
    /\ botRunID' = NextRunID(botRunID)
    /\ rid' = [rid EXCEPT ![r] = NextRunID(botRunID)]
    /\ rpc' = [rpc EXCEPT ![r] = "allocated"]
    /\ allocs' = allocs + 1
    /\ UNCHANGED <<activeRobots, pipeVars, envVars, replyVars, schedVars, histVars, execVars, idVars, promptVars, logVars, addVars>>

\* registerActive 74-76, under the activeRobots lock
RegisterActiveMap(r) ==
    /\ rpc[r] = "allocated"
    /\ activeRobots' = RegisterRun(activeRobots, rid[r], r)
    /\ rpc' = [rpc EXCEPT ![r] = "active"]
    /\ UNCHANGED <<botRunID, rid, allocs, pipeVars, envVars, replyVars, schedVars, histVars, execVars, idVars, promptVars, logVars, addVars>>

\* deregister, under the activeRobots lock; the context is then dropped
Deregister(r) ==
    /\ rpc[r] = "active"
    /\ activeRobots' = DeregisterRun(activeRobots, rid[r])
    /\ rpc' = [rpc EXCEPT ![r] = "idle"]
    /\ rid' = [rid EXCEPT ![r] = 0]
    /\ UNCHANGED <<botRunID, allocs, pipeVars, envVars, replyVars, schedVars, histVars, execVars, idVars, promptVars, logVars, addVars>>

RegNext ==
    \/ \E r \in RunNames : RegisterActiveID(r)
    \/ \E r \in RunNames : RegisterActiveMap(r)
    \/ \E r \in RunNames : Deregister(r)

RegSpec == RegInit /\ [][RegNext]_vars

----------------------------------------------------------------------------
(* The environment of a run on its own: runScheduledTask seeds the context *)
(* with the entry's parameters and runPipeline assembles the environment   *)
(* (robot.go 458-491), for every combination of the four layers.           *)

EnvKeys == {"k", "PATH"}
RECURSIVE ParamLists(_)
\* the parameter lists of up to n parameters with the value v or v2
ParamLists(n) ==
    IF n = 0 THEN { << >> }
    ELSE ParamLists(n - 1) \cup
         { Append(ps, [Name |-> k, Value |-> v]) :
              ps \in { q \in ParamLists(n - 1) : Len(q) = n - 1 },
              k \in EnvKeys, v \in {"a", "b"} }

StoredChoices ==
    { [exists |-> FALSE, env |-> EmptyEnv],
      [exists |-> TRUE, env |-> EmptyEnv],
      [exists |-> TRUE, env |-> ("k" :> "stored")],
      [exists |-> TRUE, env |-> ("PATH" :> "stored")],
      [exists |-> TRUE, env |-> ("k" :> "stored") @@ ("PATH" :> "stored") @@ ("HOME" :> "stored")] }

HostChoices == { EmptyEnv, ("PATH" :> "host") @@ ("HOME" :> "host") }

EnvInit ==
    /\ envpc = "seed"
    /\ envIn \in [ isJob : BOOLEAN,
                   tsParameters : ParamLists(MaxParams),
                   jobParameters : ParamLists(MaxParams) ]
    /\ storedParams \in { [NoStoredParams EXCEPT !["build"] = st] : st \in StoredChoices }
    /\ hostEnv \in HostChoices
    /\ replies = NoReplies
    /\ repliesLock = "free"
    /\ wpc = [w \in Waiters |-> "off"]
    /\ wret = [w \in Waiters |-> ""]
    /\ wsend = [w \in Waiters |-> "nil"]
    /\ prompted = [w \in Waiters |-> 0]
    /\ dpending = << >>
    /\ msgs = 0
    /\ reqOrder = << >>
    /\ resolved = << >>
    /\ wfired = [w \in Waiters |-> FALSE]
    /\ schedItems = << >>
    /\ currentTasks = "v1"
    /\ schedMutex = "free"
    /\ taskRunner = 0
    /\ crons = << >>
    /\ sched = [c \in SchedCallers |-> IdleSched]
    /\ sruns = << >>
    /\ taskNameIDmap = NoIDs
    /\ addq = NoAdd
    /\ idc = [c \in IdCallers |-> IdleCaller]
    /\ idlog = << >>
    /\ prm = NoPrompt
    /\ lrun = NoLogRun
    /\ hist = NoHist
    /\ extask = NoExec
    /\ bot = [IdleBot EXCEPT !.NameSpace = "build", !.bypassSecurityChecks = TRUE]
    /\ botRunID = 0
    /\ activeRobots = [i \in {} |-> "nil"]
    /\ rpc = [r \in RunNames |-> "idle"]
    /\ rid = [r \in RunNames |-> 0]
    /\ allocs = 0
    /\ pc = "off"
    /\ t = "nil"
    /\ command = ""
    /\ args = << >>
    /\ isPlugin = FALSE
    /\ plugin = "nil"
    /\ isJob = FALSE
    /\ verbose = FALSE
    /\ interactive = FALSE
    /\ ptype = "scheduled"
    /\ ret = "Normal"
    /\ errString = ""
    /\ runIndex = 0
    /\ histStore = [NextIndex |-> 0, Histories |-> << >>]
    /\ addCalls = 0
    /\ lastAdd = ""
    /\ trace = << >>

\* runScheduledTask 75-83: only a job's entry seeds parameters
EnvSeed ==
    /\ envpc = "seed"
    /\ bot' = [bot EXCEPT !.environment =
                  IF envIn.isJob THEN SeedParameters(EmptyEnv, envIn.tsParameters)
                  ELSE EmptyEnv]
    /\ envpc' = "assemble"
    /\ UNCHANGED <<pc, t, command, args, isPlugin, plugin, isJob, verbose, interactive,
                   ptype, ret, errString, runIndex, histStore, storedParams, hostEnv,
                   addCalls, lastAdd, trace, regVars, runVars, envIn, replyVars, schedVars, histVars, execVars, idVars, promptVars, logVars, addVars>>

\* runPipeline 463-491
EnvAssemble ==
    /\ envpc = "assemble"
    /\ bot' = [bot EXCEPT !.environment =
                  AssembleEnvironment(bot.environment,
                                      IF envIn.isJob THEN envIn.jobParameters ELSE << >>,
                                      storedParams[bot.NameSpace], hostEnv),
                          !.pipeStarting = TRUE]
    /\ envpc' = "done"
    /\ UNCHANGED <<pc, t, command, args, isPlugin, plugin, isJob, verbose, interactive,
                   ptype, ret, errString, runIndex, histStore, storedParams, hostEnv,
                   addCalls, lastAdd, trace, regVars, runVars, envIn, replyVars, schedVars, histVars, execVars, idVars, promptVars, logVars, addVars>>

EnvNext == EnvSeed \/ EnvAssemble

EnvSpec == EnvInit /\ [][EnvNext]_vars

\* ------------------------------------------------------------------------
\* The reply-wait table: promptWait and the message dispatcher
\* ------------------------------------------------------------------------

\* the texts of incoming messages; "cmd" stands for a message that matches a
\* plugin command, which interrupts the wait
Incoming == {"y", "=", "-", "zz", "cmd"}

\* rep.re.MatchString: every waiter of the model waits for the text "y"
MatchString(text) == text = "y"

\* the reply struct
Reply(matched, disposition, rep) ==
    [matched |-> matched, disposition |-> disposition, rep |-> rep]

\* promptWait 231-250: what the caller does with the reply it has read;
\* "retry" stands for the recursive call promptWait(..., true)
ProcessReply(r) ==
    IF r.disposition = "replyInterrupted" THEN "Interrupted"
    ELSE IF r.disposition = "retryPrompt" THEN "retry"
    ELSE IF ~r.matched
         THEN IF r.rep = "=" THEN "UseDefaultValue"
              ELSE IF r.rep = "-" THEN "Interrupted"
              ELSE "ReplyNotMatched"
    ELSE "Ok"

\* history: w is resolved the first time it is replied to, interrupted,
\* timed out or returned
AddResolved(q, w) ==
    IF \E i \in 1..Len(q) : q[i] = w THEN q ELSE Append(q, w)

\* promptWait 213-217: the table after a timeout has dropped the head of the list
DropHead(waitlist) ==
    IF Len(waitlist) = 1 THEN NoReplies ELSE ("m" :> Tail(waitlist))

\* promptWait 221: the waiter whose channel gets the retryPrompt
RetryTarget(waitlist) == waitlist[1]

ReplyInit ==
    /\ pc = "off"
    /\ bot = IdleBot
    /\ t = "nil"
    /\ command = ""
    /\ args = << >>
    /\ isPlugin = FALSE
    /\ plugin = "nil"
    /\ isJob = FALSE
    /\ verbose = FALSE
    /\ interactive = TRUE
    /\ ptype = "plugCommand"
    /\ ret = "Normal"
    /\ errString = ""
    /\ runIndex = 0
    /\ histStore = [NextIndex |-> 0, Histories |-> << >>]
    /\ storedParams = NoStoredParams
    /\ hostEnv = EmptyEnv
    /\ addCalls = 0
    /\ lastAdd = ""
    /\ trace = << >>
    /\ botRunID = 0
    /\ activeRobots = [i \in {} |-> "nil"]
    /\ rpc = [r \in RunNames |-> "idle"]
    /\ rid = [r \in RunNames |-> 0]
    /\ allocs = 0
    /\ envpc = "off"
    /\ envIn = NoEnvIn
    /\ replies = NoReplies
    /\ repliesLock = "free"
    /\ wpc = [w \in Waiters |-> "idle"]
    /\ wret = [w \in Waiters |-> ""]
    /\ wsend = [w \in Waiters |-> "nil"]
    /\ prompted = [w \in Waiters |-> 0]
    /\ dpending = << >>
    /\ msgs = 0
    /\ reqOrder = << >>
    /\ resolved = << >>
    /\ wfired = [w \in Waiters |-> FALSE]
    /\ schedItems = << >>
    /\ currentTasks = "v1"
    /\ schedMutex = "free"
    /\ taskRunner = 0
    /\ crons = << >>
    /\ sched = [c \in SchedCallers |-> IdleSched]
    /\ sruns = << >>
    /\ taskNameIDmap = NoIDs
    /\ addq = NoAdd
    /\ idc = [c \in IdCallers |-> IdleCaller]
    /\ idlog = << >>
    /\ prm = NoPrompt
    /\ lrun = NoLogRun
    /\ hist = NoHist
    /\ extask = NoExec

\* the results of the connector's SendProtocolUser(Channel)Message
SendRetVals == {"Ok", "ChannelNotFound"}

\* promptWait 178-187: a first call (retry = false) takes the lock; with an
\* entry for the matcher it appends its waiter and unlocks, without one it
\* keeps the lock while it prompts
PromptWaitLock(w) ==
    /\ wpc[w] = "idle"
    /\ repliesLock = "free"
    /\ reqOrder' = Append(reqOrder, w)
    /\ IF "m" \in DOMAIN replies
       THEN /\ replies' = ("m" :> Append(replies["m"], w))
            /\ wpc' = [wpc EXCEPT ![w] = "select"]
            /\ UNCHANGED repliesLock
       ELSE /\ repliesLock' = w
            /\ wpc' = [wpc EXCEPT ![w] = "prompting"]
            /\ UNCHANGED replies
    /\ UNCHANGED <<wret, wsend, prompted, dpending, msgs, resolved, wfired,
                   pipeVars, regVars, runVars, envVars, schedVars, histVars, execVars, idVars, promptVars, logVars, addVars>>

\* promptWait 196-202: the reply table after the send of w's prompt: only a
\* successful send makes the list with w's waiter
TableAfterSend_always(rep, w, sret) == ("m" :> <<w>>)
TableAfterSend(rep, w, sret) == IF sret # "Ok" THEN rep ELSE ("m" :> <<w>>)

\* promptWait 188-203: the prompt is sent with the lock held; a failed send
\* returns its RetVal, a successful one creates the list with this waiter
PromptWaitSend(w) ==
    /\ wpc[w] = "prompting"
    /\ \E sret \in SendRetVals :
          IF sret # "Ok"
          THEN /\ wret' = [wret EXCEPT ![w] = sret]
               /\ wpc' = [wpc EXCEPT ![w] = "returned"]
               /\ resolved' = AddResolved(resolved, w)
               /\ replies' = TableAfterSend(replies, w, sret)
               /\ UNCHANGED prompted
          ELSE /\ prompted' = [prompted EXCEPT ![w] = @ + 1]
               /\ replies' = TableAfterSend(replies, w, sret)
               /\ wpc' = [wpc EXCEPT ![w] = "select"]
               /\ UNCHANGED <<wret, resolved>>
    /\ repliesLock' = "free"
    /\ UNCHANGED <<wsend, dpending, msgs, reqOrder, wfired,
                   pipeVars, regVars, runVars, envVars, schedVars, histVars, execVars, idVars, promptVars, logVars, addVars>>

\* promptWait 207-229: the timer fires. With an entry for the matcher the
\* head of its list is dropped and the caller goes on to send retryPrompt on
\* waitlist[0]'s channel; without one it reads its own channel
PromptWaitTimeout(w) ==
    /\ wpc[w] = "select"
    /\ repliesLock = "free"
    /\ wfired' = [wfired EXCEPT ![w] = TRUE]
    /\ IF "m" \in DOMAIN replies
       THEN /\ replies' = DropHead(replies["m"])
            /\ wsend' = [wsend EXCEPT ![w] = RetryTarget(replies["m"])]
            /\ wpc' = [wpc EXCEPT ![w] = "sendRetry"]
            /\ resolved' = AddResolved(resolved, w)
       ELSE /\ wpc' = [wpc EXCEPT ![w] = "raceRead"]
            /\ UNCHANGED <<replies, wsend, resolved>>
    /\ UNCHANGED <<repliesLock, wret, prompted, dpending, msgs, reqOrder,
                   pipeVars, regVars, runVars, envVars, schedVars, histVars, execVars, idVars, promptVars, logVars, addVars>>

\* promptWait 221-223 and 230-238: the unbuffered send of retryPrompt by the
\* timed-out caller v meets the read of w, which calls promptWait(..., true):
\* no prompt, no entry, a new timer; v returns TimeoutExpired
PromptWaitRetry(w, v) ==
    /\ wpc[v] = "sendRetry"
    /\ wsend[v] = w
    /\ wpc[w] \in {"select", "raceRead"}
    /\ ProcessReply(Reply(FALSE, "retryPrompt", "")) = "retry"
    /\ wpc' = [wpc EXCEPT ![w] = "select", ![v] = "returned"]
    /\ wret' = [wret EXCEPT ![v] = "TimeoutExpired"]
    /\ wsend' = [wsend EXCEPT ![v] = "nil"]
    /\ UNCHANGED <<replies, repliesLock, prompted, dpending, msgs, reqOrder, resolved,
                   wfired, pipeVars, regVars, runVars, envVars, schedVars, histVars, execVars, idVars, promptVars, logVars, addVars>>

\* promptWait 228-250: the caller reads the reply the dispatcher sends it
PromptWaitReceive(w) ==
    /\ wpc[w] \in {"select", "raceRead"}
    /\ dpending # << >>
    /\ Head(dpending).to = w
    /\ LET out == ProcessReply(Head(dpending).reply)
       IN  IF out = "retry"
           THEN /\ wpc' = [wpc EXCEPT ![w] = "select"]
                /\ UNCHANGED <<wret, resolved>>
           ELSE /\ wpc' = [wpc EXCEPT ![w] = "returned"]
                /\ wret' = [wret EXCEPT ![w] = out]
                /\ resolved' = AddResolved(resolved, w)
    /\ dpending' = Tail(dpending)
    /\ UNCHANGED <<replies, repliesLock, wsend, prompted, msgs, reqOrder, wfired,
                   pipeVars, regVars, runVars, envVars, schedVars, histVars, execVars, idVars, promptVars, logVars, addVars>>

\* the replies of the dispatcher to the waiters of a deleted entry: the head
\* gets the message (or the interruption), the others retryPrompt
Deliveries(waitlist, text) ==
    [i \in 1..Len(waitlist) |->
        [to |-> waitlist[i],
         reply |-> IF i > 1 THEN Reply(FALSE, "retryPrompt", "")
                   ELSE IF text = "cmd" THEN Reply(FALSE, "replyInterrupted", "")
                   ELSE Reply(MatchString(text), "replied", text)]]

\* the message dispatcher (handleMessage): a message from the matcher's user
\* in its channel deletes the entry under the lock, then sends to each waiter
HandleMessage(text) ==
    /\ msgs < MaxMsgs
    /\ repliesLock = "free"
    /\ dpending = << >>
    /\ "m" \in DOMAIN replies
    /\ replies' = NoReplies
    /\ dpending' = Deliveries(replies["m"], text)
    /\ resolved' = AddResolved(resolved, replies["m"][1])
    /\ msgs' = msgs + 1
    /\ UNCHANGED <<repliesLock, wpc, wret, wsend, prompted, reqOrder, wfired,
                   pipeVars, regVars, runVars, envVars, schedVars, histVars, execVars, idVars, promptVars, logVars, addVars>>

ReplyNext ==
    \/ \E w \in Waiters : PromptWaitLock(w)
    \/ \E w \in Waiters : PromptWaitSend(w)
    \/ \E w \in Waiters : PromptWaitTimeout(w)
    \/ \E w \in Waiters, v \in Waiters : PromptWaitRetry(w, v)
    \/ \E w \in Waiters : PromptWaitReceive(w)
    \/ \E text \in Incoming : HandleMessage(text)

ReplySpec == ReplyInit /\ [][ReplyNext]_vars

\* a timer that was started fires, a send or a read that can complete does;
\* nothing makes a user write or a plugin prompt
ReplyFairness ==
    /\ \A w \in Waiters : WF_vars(PromptWaitSend(w))
    /\ \A w \in Waiters : WF_vars(PromptWaitTimeout(w))
    /\ \A w \in Waiters : WF_vars(PromptWaitReceive(w))
    /\ \A w \in Waiters : WF_vars(\E v \in Waiters : PromptWaitRetry(w, v))

FairReplySpec == ReplyInit /\ [][ReplyNext]_vars /\ ReplyFairness

----------------------------------------------------------------------------
(* The scheduler: scheduleTasks and runScheduledTask *)

\* the task table after a reload of the configuration: "build" is disabled
\* and "echo" is gone
TaskTable2 ==
    [n \in TaskNames \ {"echo"} |->
        IF n = "build" THEN [TaskTable[n] EXCEPT !.Disabled = TRUE] ELSE TaskTable[n]]

\* the task tables that currentTasks has referred to; a taskList copies the
\* references of the table in force (part_001 30-36), a reload installs new ones
TaskTables == ("v1" :> TaskTable) @@ ("v2" :> TaskTable2)
TableRefs == DOMAIN TaskTables

\* a task is a pointer into one of the tables
NilTask == [ver |-> "nil", name |-> "nil"]
TaskAt(o) == TaskTables[o.ver][o.name]

\* taskList.getTaskByName on the list tl
getTaskByNameIn_current(tl, name) ==
    IF name \in DOMAIN TaskTables[currentTasks]
    THEN [ver |-> currentTasks, name |-> name] ELSE NilTask
getTaskByNameIn(tl, name) ==
    IF name \in DOMAIN TaskTables[tl] THEN [ver |-> tl, name |-> name] ELSE NilTask

\* scheduledTask: a schedule and a taskSpec
Item(schedule, name, cmd, params) ==
    [Schedule |-> schedule, Name |-> name, Command |-> cmd, Arguments |-> << >>,
     Parameters |-> params]
NoItem == Item("", "", "", << >>)
Param(k, v) == [Name |-> k, Value |-> v]

\* the configurations of robot.scheduledTasks in the model
ScheduledChoices ==
    { << Item("@hourly", "build", "", << Param("k", "a") >>),
         Item("@daily", "build", "", << Param("k", "b"), Param("PATH", "b") >>) >>,
      << Item("@daily", "off", "go", << >>),
         Item("@hourly", "off", "stop", << >>),
         Item("@hourly", "build", "", << Param("k", "a") >>) >>,
      << Item("@hourly", "ghost", "x", << >>),
         Item("@daily", "echo", "hello", << >>) >>,
      << Item("@daily", "echo", "", << >>),
         Item("@hourly", "admin", "list", << >>),
         Item("@hourly", "ghost", "", << >>) >>,
      << Item("@hourly", "echo", "hello", << >>) >>,
      << >> }

\* the positions of the items in the configured lists
ItemPositions == UNION { DOMAIN l : l \in ScheduledChoices }

\* cron.Stop on the instance of the handle; nothing for a nil handle
StopCron_noop(cs, h) == cs
StopCron(cs, h) == IF h = 0 THEN cs ELSE [cs EXCEPT ![h].running = FALSE]

\* part_001 40-48: the item is skipped when its task is missing or disabled
Skipped_never(tk) == FALSE
Skipped(tk) == tk = NilTask \/ TaskAt(tk).Disabled

\* the taskSpec the function literal of part_001 50 passes when it runs: it
\* reads the loop variable st, which all the literals of one loop share
ClosureSpec_own(c, e) == c.scheduled[e.idx]
ClosureSpec(c, e) == c.st

SchedInit ==
    /\ pc = "off"
    /\ bot = IdleBot
    /\ t = "nil"
    /\ command = ""
    /\ args = << >>
    /\ isPlugin = FALSE
    /\ plugin = "nil"
    /\ isJob = FALSE
    /\ verbose = FALSE
    /\ interactive = FALSE
    /\ ptype = "scheduled"
    /\ ret = "Normal"
    /\ errString = ""
    /\ runIndex = 0
    /\ histStore = [NextIndex |-> 0, Histories |-> << >>]
    /\ storedParams = NoStoredParams
    /\ hostEnv = EmptyEnv
    /\ addCalls = 0
    /\ lastAdd = ""
    /\ trace = << >>
    /\ botRunID = 0
    /\ activeRobots = [i \in {} |-> "nil"]
    /\ rpc = [r \in RunNames |-> "idle"]
    /\ rid = [r \in RunNames |-> 0]
    /\ allocs = 0
    /\ envpc = "off"
    /\ envIn = NoEnvIn
    /\ replies = NoReplies
    /\ repliesLock = "free"
    /\ wpc = [w \in Waiters |-> "off"]
    /\ wret = [w \in Waiters |-> ""]
    /\ wsend = [w \in Waiters |-> "nil"]
    /\ prompted = [w \in Waiters |-> 0]
    /\ dpending = << >>
    /\ msgs = 0
    /\ reqOrder = << >>
    /\ resolved = << >>
    /\ wfired = [w \in Waiters |-> FALSE]
    /\ schedItems \in ScheduledChoices
    /\ currentTasks = "v1"
    /\ schedMutex = "free"
    /\ taskRunner = 0
    /\ crons = << >>
    /\ sched = [c \in SchedCallers |-> [IdleSched EXCEPT !.pc = "idle"]]
    /\ sruns = << >>
    /\ taskNameIDmap = NoIDs
    /\ addq = NoAdd
    /\ idc = [c \in IdCallers |-> IdleCaller]
    /\ idlog = << >>
    /\ prm = NoPrompt
    /\ lrun = NoLogRun
    /\ hist = NoHist
    /\ extask = NoExec

\* scheduleTasks 14-17: the lock is taken and the instance of the handle stopped
ScheduleTasksLock(c) ==
    /\ sched[c].pc = "idle"
    /\ schedMutex = "free"
    /\ Len(crons) < MaxCrons
    /\ schedMutex' = c
    /\ crons' = StopCron(crons, taskRunner)
    /\ sched' = [sched EXCEPT ![c].pc = "locked"]
    /\ UNCHANGED <<schedItems, currentTasks, taskRunner, sruns,
                   pipeVars, regVars, runVars, envVars, replyVars, histVars, execVars, idVars, promptVars, logVars, addVars>>

\* scheduleTasks 18-37: the configured items are read, a new instance is
\* assigned to the handle and the task list in force is copied
ScheduleTasksNew(c) ==
    /\ sched[c].pc = "locked"
    /\ crons' = Append(crons, [running |-> FALSE, st |-> NoItem, tasks |-> currentTasks,
                               scheduled |-> schedItems, entries |-> << >>])
    /\ taskRunner' = Len(crons) + 1
    /\ sched' = [sched EXCEPT ![c] = [pc |-> "loop", i |-> 1, tasks |-> currentTasks,
                                      scheduled |-> schedItems]]
    /\ UNCHANGED <<schedItems, currentTasks, schedMutex, sruns,
                   pipeVars, regVars, runVars, envVars, replyVars, histVars, execVars, idVars, promptVars, logVars, addVars>>

\* scheduleTasks 38-51: one iteration of the loop; st takes the next item,
\* the item is skipped or its function literal is added to the instance
ScheduleTasksLoop(c) ==
    /\ sched[c].pc = "loop"
    /\ sched[c].i <= Len(sched[c].scheduled)
    /\ LET st == sched[c].scheduled[sched[c].i]
           tk == getTaskByNameIn(sched[c].tasks, st.Name)
           en == [idx |-> sched[c].i, Schedule |-> st.Schedule, task |-> tk,
                  tasks |-> sched[c].tasks]
       IN  crons' = [crons EXCEPT ![taskRunner].st = st,
                                  ![taskRunner].entries =
                                      IF Skipped(tk) THEN @ ELSE Append(@, en)]
    /\ sched' = [sched EXCEPT ![c].i = @ + 1]
    /\ UNCHANGED <<schedItems, currentTasks, schedMutex, taskRunner, sruns,
                   pipeVars, regVars, runVars, envVars, replyVars, histVars, execVars, idVars, promptVars, logVars, addVars>>

\* scheduleTasks 52-53: the new instance is started and the lock released
ScheduleTasksStart(c) ==
    /\ sched[c].pc = "loop"
    /\ sched[c].i > Len(sched[c].scheduled)
    /\ crons' = [crons EXCEPT ![taskRunner].running = TRUE]
    /\ schedMutex' = "free"
    /\ sched' = [sched EXCEPT ![c] = [IdleSched EXCEPT !.pc = "idle"]]
    /\ UNCHANGED <<schedItems, currentTasks, taskRunner, sruns,
                   pipeVars, regVars, runVars, envVars, replyVars, histVars, execVars, idVars, promptVars, logVars, addVars>>

\* runScheduledTask 56-86: the run it hands to runPipeline, or no run for a
\* plugin without a command
runScheduledTask(tk, ts, tasks) ==
    LET isP == TaskAt(tk).kind = "plugin"
    IN  IF isP /\ Len(ts.Command) = 0
        THEN [started |-> FALSE, task |-> tk, command |-> "", args |-> << >>,
              environment |-> EmptyEnv, bypassSecurityChecks |-> FALSE,
              tasks |-> tasks, nextTasks |-> << >>]
        ELSE [started |-> TRUE, task |-> tk,
              command |-> IF isP THEN ts.Command ELSE "run",
              args |-> ts.Arguments,
              environment |-> IF isP THEN EmptyEnv
                              ELSE SeedParameters(EmptyEnv, ts.Parameters),
              bypassSecurityChecks |-> BypassSecurity("scheduled"),
              tasks |-> tasks, nextTasks |-> << >>]

\* a running instance fires one of its entries (part_001 50)
CronFire(h, e) ==
    /\ h \in DOMAIN crons
    /\ crons[h].running
    /\ e \in DOMAIN crons[h].entries
    /\ Len(sruns) < MaxFires
    /\ LET en == crons[h].entries[e]
           run == runScheduledTask(en.task, ClosureSpec(crons[h], en), en.tasks)
       IN  sruns' = Append(sruns, [cron |-> h, entry |-> e, run |-> run])
    /\ UNCHANGED <<schedItems, currentTasks, schedMutex, taskRunner, crons, sched,
                   pipeVars, regVars, runVars, envVars, replyVars, histVars, execVars, idVars, promptVars, logVars, addVars>>

\* Robot.AddTask 88-93 and 111-117 in a scheduled run: the name is looked up
\* in the run's own task list (c.tasks)
SchedAddTask(r, name) ==
    /\ r \in DOMAIN sruns
    /\ sruns[r].run.started
    /\ Len(sruns[r].run.nextTasks) < MaxSchedAdd
    /\ LET tk == getTaskByNameIn(sruns[r].run.tasks, name)
       IN  /\ tk # NilTask
           /\ sruns' = [sruns EXCEPT ![r].run.nextTasks =
                           Append(@, [Name |-> name, task |-> tk])]
    /\ UNCHANGED <<schedItems, currentTasks, schedMutex, taskRunner, crons, sched,
                   pipeVars, regVars, runVars, envVars, replyVars, histVars, execVars, idVars, promptVars, logVars, addVars>>

\* a reload of the configuration installs another task table
ReloadTasks ==
    /\ \E v \in TableRefs \ {currentTasks} : currentTasks' = v
    /\ UNCHANGED <<schedItems, schedMutex, taskRunner, crons, sched, sruns,
                   pipeVars, regVars, runVars, envVars, replyVars, histVars, execVars, idVars, promptVars, logVars, addVars>>

SchedNext ==
    \/ \E c \in SchedCallers : ScheduleTasksLock(c)
    \/ \E c \in SchedCallers : ScheduleTasksNew(c)
    \/ \E c \in SchedCallers : ScheduleTasksLoop(c)
    \/ \E c \in SchedCallers : ScheduleTasksStart(c)
    \/ \E h \in 1..MaxCrons, e \in ItemPositions : CronFire(h, e)
    \/ \E r \in 1..MaxFires, name \in TaskNames \cup {"ghost"} : SchedAddTask(r, name)
    \/ ReloadTasks

SchedSpec == SchedInit /\ [][SchedNext]_vars

----------------------------------------------------------------------------
(* The stored history of one task over its runs: runPipeline 413-456 *)

HistInit ==
    /\ pc = "off"
    /\ bot = IdleBot
    /\ t = "nil"
    /\ command = ""
    /\ args = << >>
    /\ isPlugin = FALSE
    /\ plugin = "nil"
    /\ isJob = FALSE
    /\ verbose = FALSE
    /\ interactive = TRUE
    /\ ptype = "plugCommand"
    /\ ret = "Normal"
    /\ errString = ""
    /\ runIndex = 0
    /\ histStore = [NextIndex |-> 0, Histories |-> << >>]
    /\ storedParams = NoStoredParams
    /\ hostEnv = EmptyEnv
    /\ addCalls = 0
    /\ lastAdd = ""
    /\ trace = << >>
    /\ botRunID = 0
    /\ activeRobots = [i \in {} |-> "nil"]
    /\ rpc = [r \in RunNames |-> "idle"]
    /\ rid = [r \in RunNames |-> 0]
    /\ allocs = 0
    /\ envpc = "off"
    /\ envIn = NoEnvIn
    /\ replies = NoReplies
    /\ repliesLock = "free"
    /\ wpc = [w \in Waiters |-> "off"]
    /\ wret = [w \in Waiters |-> ""]
    /\ wsend = [w \in Waiters |-> "nil"]
    /\ prompted = [w \in Waiters |-> 0]
    /\ dpending = << >>
    /\ msgs = 0
    /\ reqOrder = << >>
    /\ resolved = << >>
    /\ wfired = [w \in Waiters |-> FALSE]
    /\ schedItems = << >>
    /\ currentTasks = "v1"
    /\ schedMutex = "free"
    /\ taskRunner = 0
    /\ crons = << >>
    /\ sched = [c \in SchedCallers |-> IdleSched]
    /\ sruns = << >>
    /\ taskNameIDmap = NoIDs
    /\ addq = NoAdd
    /\ idc = [c \in IdCallers |-> IdleCaller]
    /\ idlog = << >>
    /\ prm = NoPrompt
    /\ lrun = NoLogRun
    /\ hist \in [HistoryLogs : 0..MaxHistoryLogs, isJob : BOOLEAN, runs : {0}, allOk : {TRUE},
                 given : {<< >>}]
    /\ extask = NoExec

\* runPipeline 414-442: the history block of one run of the task; the run
\* index and the store after it
HistoryRun ==
    /\ hist.runs < MaxRuns
    /\ \E checkoutOk \in BOOLEAN, updateOk \in BOOLEAN :
          LET withHist == hist.HistoryLogs > 0 \/ hist.isJob
              rememberRuns == IF hist.HistoryLogs = 0 THEN 1 ELSE hist.HistoryLogs
              stored == withHist /\ checkoutOk /\ updateOk
          IN  /\ (~withHist => checkoutOk /\ updateOk)
              /\ (~checkoutOk => updateOk)
              /\ runIndex' = IF withHist /\ checkoutOk THEN TakeIndex(histStore) ELSE 0
              /\ histStore' = IF stored THEN RecordRun(histStore, rememberRuns) ELSE histStore
              /\ hist' = [hist EXCEPT !.runs = @ + 1,
                                      !.allOk = @ /\ checkoutOk /\ updateOk,
                                      !.given = Append(@, [idx |-> runIndex',
                                                           checkoutOk |-> checkoutOk,
                                                           updateOk |-> updateOk])]
    /\ UNCHANGED <<pc, bot, t, command, args, isPlugin, plugin, isJob, verbose, interactive,
                   ptype, ret, errString, storedParams, hostEnv, addCalls, lastAdd, trace,
                   regVars, runVars, envVars, replyVars, schedVars, execVars, idVars, promptVars, logVars, addVars>>

HistNext == HistoryRun

HistSpec == HistInit /\ [][HistNext]_vars

----------------------------------------------------------------------------
(* One call of an external task: callTask 625-788 *)

\* the number of a TaskRetVal
RetValCode(name) == CHOOSE n \in 0..7 : TaskRetValOf(n) = name

\* how cmd.Wait ends: the process exits with a code, is killed by a signal
\* (ExitStatus() is then -1), or Wait fails with an error that is no ExitError
WaitResults ==
    [kind : {"exit"}, code : ExitCodes] \cup
    { [kind |-> "signal", code |-> 0 - 1], [kind |-> "error", code |-> 0] }

\* what one call meets: the results of getTaskPath, getInterpreter,
\* StderrPipe, StdoutPipe, Start and of reading stderr; whether the run has
\* a history logger; the end of the process
ExecInputs ==
    [ pathOk : BOOLEAN, interpOk : BOOLEAN, stderrPipeOk : BOOLEAN,
      stdoutPipeOk : BOOLEAN, startOk : BOOLEAN, readOk : BOOLEAN,
      logger : BOOLEAN, wait : WaitResults ]

\* callTask 771-788: the outcome after cmd.Wait
WaitOutcome(w) ==
    IF w.kind = "exit" /\ w.code = 0 THEN RetValCode("Normal")
    ELSE IF w.kind = "error" THEN RetValCode("Fail")
    ELSE w.code

\* callTask 625-788: the outcome of the call of an external task. Without a
\* logger stderr is read with ReadAll and an error returns MechanismFail
\* (728-734); with a logger the two scanners end at any error as at the end
\* of the stream (741-770).
ExternalOutcome(in) ==
    IF ~in.pathOk THEN RetValCode("MechanismFail")
    ELSE IF ~in.interpOk THEN RetValCode("MechanismFail")
    ELSE IF ~in.stderrPipeOk THEN RetValCode("MechanismFail")
    ELSE IF in.logger /\ ~in.stdoutPipeOk THEN RetValCode("MechanismFail")
    ELSE IF ~in.startOk THEN RetValCode("MechanismFail")
    ELSE IF ~in.logger /\ ~in.readOk THEN RetValCode("MechanismFail")
    ELSE WaitOutcome(in.wait)

ExecInit ==
    /\ pc = "off"
    /\ bot = IdleBot
    /\ t = "nil"
    /\ command = ""
    /\ args = << >>
    /\ isPlugin = FALSE
    /\ plugin = "nil"
    /\ isJob = FALSE
    /\ verbose = FALSE
    /\ interactive = TRUE
    /\ ptype = "plugCommand"
    /\ ret = "Normal"
    /\ errString = ""
    /\ runIndex = 0
    /\ histStore = [NextIndex |-> 0, Histories |-> << >>]
    /\ storedParams = NoStoredParams
    /\ hostEnv = EmptyEnv
    /\ addCalls = 0
    /\ lastAdd = ""
    /\ trace = << >>
    /\ botRunID = 0
    /\ activeRobots = [i \in {} |-> "nil"]
    /\ rpc = [r \in RunNames |-> "idle"]
    /\ rid = [r \in RunNames |-> 0]
    /\ allocs = 0
    /\ envpc = "off"
    /\ envIn = NoEnvIn
    /\ replies = NoReplies
    /\ repliesLock = "free"
    /\ wpc = [w \in Waiters |-> "off"]
    /\ wret = [w \in Waiters |-> ""]
    /\ wsend = [w \in Waiters |-> "nil"]
    /\ prompted = [w \in Waiters |-> 0]
    /\ dpending = << >>
    /\ msgs = 0
    /\ reqOrder = << >>
    /\ resolved = << >>
    /\ wfired = [w \in Waiters |-> FALSE]
    /\ schedItems = << >>
    /\ currentTasks = "v1"
    /\ schedMutex = "free"
    /\ taskRunner = 0
    /\ crons = << >>
    /\ sched = [c \in SchedCallers |-> IdleSched]
    /\ sruns = << >>
    /\ taskNameIDmap = NoIDs
    /\ addq = NoAdd
    /\ idc = [c \in IdCallers |-> IdleCaller]
    /\ idlog = << >>
    /\ prm = NoPrompt
    /\ lrun = NoLogRun
    /\ hist = NoHist
    /\ \E in \in ExecInputs :
          /\ (~in.logger => in.stdoutPipeOk)
          /\ extask = [pc |-> "call", in |-> in, retval |-> 0]

\* callTask is called for the external task and returns
ExecCall ==
    /\ extask.pc = "call"
    /\ extask' = [extask EXCEPT !.pc = "returned", !.retval = ExternalOutcome(extask.in)]
    /\ UNCHANGED <<pipeVars, regVars, runVars, envVars, replyVars, schedVars, histVars,
                   idVars, promptVars, logVars, addVars>>

ExecNext == ExecCall

ExecSpec == ExecInit /\ [][ExecNext]_vars

----------------------------------------------------------------------------
(* The task identities: getTaskID and taskNameIDmap *)

\* the names getTaskID is called with and the random IDs rand.Read can give
IdNames == {"echo", "build"}
IdValues == {"id1", "id2"}

\* the number of getTaskID calls so far
IdCalls(log) == Cardinality({ i \in 1..Len(log) : log[i].e = "call" })

IdEv(e, c, plug, id) == [e |-> e, c |-> c, plug |-> plug, id |-> id]

\* tasks.go 293: "taskID, ok := taskNameIDmap.m[plug]"
IdKnown_never(m, plug) == FALSE
IdKnown(m, plug) == plug \in DOMAIN m

IdInit ==
    /\ pc = "off"
    /\ bot = IdleBot
    /\ t = "nil"
    /\ command = ""
    /\ args = << >>
    /\ isPlugin = FALSE
    /\ plugin = "nil"
    /\ isJob = FALSE
    /\ verbose = FALSE
    /\ interactive = TRUE
    /\ ptype = "plugCommand"
    /\ ret = "Normal"
    /\ errString = ""
    /\ runIndex = 0
    /\ histStore = [NextIndex |-> 0, Histories |-> << >>]
    /\ storedParams = NoStoredParams
    /\ hostEnv = EmptyEnv
    /\ addCalls = 0
    /\ lastAdd = ""
    /\ trace = << >>
    /\ botRunID = 0
    /\ activeRobots = [i \in {} |-> "nil"]
    /\ rpc = [r \in RunNames |-> "idle"]
    /\ rid = [r \in RunNames |-> 0]
    /\ allocs = 0
    /\ envpc = "off"
    /\ envIn = NoEnvIn
    /\ replies = NoReplies
    /\ repliesLock = "free"
    /\ wpc = [w \in Waiters |-> "idle"]
    /\ wret = [w \in Waiters |-> ""]
    /\ wsend = [w \in Waiters |-> "nil"]
    /\ prompted = [w \in Waiters |-> 0]
    /\ dpending = << >>
    /\ msgs = 0
    /\ reqOrder = << >>
    /\ resolved = << >>
    /\ wfired = [w \in Waiters |-> FALSE]
    /\ schedItems = << >>
    /\ currentTasks = "v1"
    /\ schedMutex = "free"
    /\ taskRunner = 0
    /\ crons = << >>
    /\ sched = [c \in SchedCallers |-> IdleSched]
    /\ sruns = << >>
    /\ taskNameIDmap = NoIDs
    /\ addq = NoAdd
    /\ idc = [c \in IdCallers |-> IdleCaller]
    /\ idlog = << >>
    /\ prm = NoPrompt
    /\ lrun = NoLogRun
    /\ hist = NoHist
    /\ extask = NoExec

\* tasks.go 291-292: getTaskID(plug) takes the lock of taskNameIDmap
GetTaskIDLock(c, plug) ==
    /\ idc[c].pc = "idle"
    /\ taskNameIDmap.lock = "free"
    /\ IdCalls(idlog) < MaxIdCalls
    /\ taskNameIDmap' = [taskNameIDmap EXCEPT !.lock = c]
    /\ idc' = [idc EXCEPT ![c] = [pc |-> "locked", plug |-> plug, taskID |-> ""]]
    /\ idlog' = Append(idlog, IdEv("call", c, plug, ""))
    /\ UNCHANGED <<pipeVars, regVars, runVars, envVars, replyVars, schedVars, histVars,
                   execVars, promptVars, logVars, addVars>>

\* tasks.go 293-297: the lookup; a known name unlocks and returns its ID
GetTaskIDLookup(c) ==
    /\ idc[c].pc = "locked"
    /\ IF IdKnown(taskNameIDmap.m, idc[c].plug)
       THEN /\ taskNameIDmap' = [taskNameIDmap EXCEPT !.lock = "free"]
            /\ idc' = [idc EXCEPT ![c] = [@ EXCEPT !.pc = "idle",
                                                   !.taskID = taskNameIDmap.m[idc[c].plug]]]
            /\ idlog' = Append(idlog, IdEv("return", c, idc[c].plug,
                                           taskNameIDmap.m[idc[c].plug]))
       ELSE /\ idc' = [idc EXCEPT ![c] = [@ EXCEPT !.pc = "generate"]]
            /\ UNCHANGED <<taskNameIDmap, idlog>>
    /\ UNCHANGED <<pipeVars, regVars, runVars, envVars, replyVars, schedVars, histVars,
                   execVars, promptVars, logVars, addVars>>

\* tasks.go 298-304: a random ID is generated and stored, the lock is
\* released and the ID returned
GetTaskIDStore(c, id) ==
    /\ idc[c].pc = "generate"
    /\ taskNameIDmap' = [m |-> (idc[c].plug :> id) @@ taskNameIDmap.m, lock |-> "free"]
    /\ idc' = [idc EXCEPT ![c] = [@ EXCEPT !.pc = "idle", !.taskID = id]]
    /\ idlog' = idlog \o <<IdEv("store", c, idc[c].plug, id),
                            IdEv("return", c, idc[c].plug, id)>>
    /\ UNCHANGED <<pipeVars, regVars, runVars, envVars, replyVars, schedVars, histVars,
                   execVars, promptVars, logVars, addVars>>

IdNext ==
    \/ \E c \in IdCallers, plug \in IdNames : GetTaskIDLock(c, plug)
    \/ \E c \in IdCallers : GetTaskIDLookup(c)
    \/ \E c \in IdCallers, id \in IdValues : GetTaskIDStore(c, id)

IdSpec == IdInit /\ [][IdNext]_vars

----------------------------------------------------------------------------
(* The public prompt operations: PromptForReply, PromptUserForReply and
   PromptUserChannelForReply *)

PromptOps == {"PromptForReply", "PromptUserForReply", "PromptUserChannelForReply"}

\* part_002 100, 118, 136: "for i := 0; i < 3; i++"
MaxPromptTries == 3

\* part_002 101, 119, 137: the user and channel each operation passes to
\* promptInternal; the robot is in channel "general" with user "alice"
PromptArgs(op) ==
    IF op = "PromptForReply" THEN [user |-> "alice", channel |-> "general"]
    ELSE IF op = "PromptUserForReply" THEN [user |-> "bob", channel |-> ""]
    ELSE [user |-> "bob", channel |-> "ops"]

\* the connector's result of sending the prompt is a RetVal
ConnectorRetVals == {"Ok", "ChannelNotFound", "RetryPrompt"}

\* a compiled pattern is the set of replies it matches, among the replies of
\* the model; NilRe is the nil *regexp.Regexp
ReplyTexts == {"y", "=", "-", "zz"}
Re(S) == [nil |-> FALSE, matches |-> S]
NilRe == [nil |-> TRUE, matches |-> {}]

\* part_002 56-64: the stock patterns, each by the replies of ReplyTexts that
\* "^\s*" + repRegex + "\s*$" matches: SimpleString is [-\w .,_'"?!]+ and
\* YesNo is (?i:yes|no|Y|N); the others need an "@", a dot or six digits
stockReplyList ==
    << [repTag |-> "Email", repRegex |-> {}],
       [repTag |-> "Domain", repRegex |-> {}],
       [repTag |-> "OTP", repRegex |-> {}],
       [repTag |-> "IPaddr", repRegex |-> {}],
       [repTag |-> "SimpleString", repRegex |-> {"y", "-", "zz"}],
       [repTag |-> "YesNo", repRegex |-> {"y"}] >>

\* part_002 87-96: the stock tags the comment of PromptForReply lists
DocumentedTags == {"Email", "Domain", "OTP", "IPAddr", "SimpleString", "YesNo"}

\* the regexIDs a plugin passes
RegexIDs == DocumentedTags \cup {"IPaddr", "Custom", "confirm", "any", "none"}

\* part_002 51 and 158: stockRepliesRe is ^[A-Z]
stockRepliesReMatch(regexID) ==
    regexID \in DocumentedTags \cup {"IPaddr", "Custom"}

\* part_002 66-71 and 159: the map init() fills, read at regexID
stockReplies(regexID) ==
    IF \E i \in 1..Len(stockReplyList) : stockReplyList[i].repTag = regexID
    THEN Re(stockReplyList[CHOOSE i \in 1..Len(stockReplyList) :
                              stockReplyList[i].repTag = regexID].repRegex)
    ELSE NilRe

\* the ReplyMatchers of the plugin that prompts: "confirm" is the Command of
\* the first and the Label of the second, "Custom" a Label with a capital
PluginReplyMatchers ==
    << [Label |-> "", Command |-> "confirm", re |-> Re({"zz"})],
       [Label |-> "confirm", Command |-> "", re |-> Re({"y"})],
       [Label |-> "any", Command |-> "", re |-> Re(ReplyTexts)],
       [Label |-> "Custom", Command |-> "", re |-> Re({"zz"})] >>

\* part_002 161-168: the loop over plugin.ReplyMatchers from element i on,
\* with re the value of rep.re so far: a Label sets it and ends the loop, a
\* Command sets it and goes on
RECURSIVE MatcherLoop(_, _, _, _)
MatcherLoop(ms, i, regexID, re) ==
    IF i > Len(ms) THEN re
    ELSE IF ms[i].Label = regexID THEN ms[i].re
    ELSE IF ms[i].Command = regexID THEN MatcherLoop(ms, i + 1, regexID, ms[i].re)
    ELSE MatcherLoop(ms, i + 1, regexID, re)

\* part_002 158-169: rep.re for a regexID
ResolveRegex(regexID) ==
    IF stockRepliesReMatch(regexID) THEN stockReplies(regexID)
    ELSE MatcherLoop(PluginReplyMatchers, 1, regexID, NilRe)

\* the dispatcher's test of a reply against the waiter's pattern
DispatchMatched(re, text) == text \in re.matches

\* the replies a waiter at the head of its list reads from its channel
\* (promptWait 229)
Arrivals ==
    { Reply(matched, disposition, rep) :
        matched \in BOOLEAN, disposition \in {"replied", "replyInterrupted"},
        rep \in ReplyTexts }

\* what one call of promptInternal meets: the regexID the plugin passes, the
\* result of sending the prompt, and what ends the wait: the timer (timedOut)
\* or a reply, whose matched flag is the dispatcher's for the waiter's pattern
PromptInputs ==
    { in \in [regexID : RegexIDs, sret : ConnectorRetVals, timedOut : BOOLEAN,
              arrival : Arrivals] :
        in.arrival.matched =
            ( /\ in.arrival.disposition = "replied"
              /\ DispatchMatched(ResolveRegex(in.regexID), in.arrival.rep) ) }

\* part_002 150-175 and promptWait 177-251 for a caller that is alone on its
\* matcher: the pattern resolved, the connector call used, whether an entry
\* of the reply table was made, the reply and the RetVal
promptInternal(user, channel, in) ==
    LET via == IF channel = "" THEN "SendProtocolUserMessage"
               ELSE "SendProtocolUserChannelMessage"
        re == ResolveRegex(in.regexID)
        out == IF in.timedOut THEN "TimeoutExpired"
               ELSE ProcessReply(in.arrival)
    IN  IF re.nil
        THEN [re |-> re, via |-> "", entry |-> FALSE, rep |-> "", ret |-> "MatcherNotFound"]
        ELSE IF in.sret # "Ok"
        THEN [re |-> re, via |-> via, entry |-> FALSE, rep |-> "", ret |-> in.sret]
        ELSE [re |-> re, via |-> via, entry |-> TRUE,
              rep |-> IF out = "Ok" THEN in.arrival.rep ELSE "", ret |-> out]

\* part_002 107-110: the return after the loop
PublicRet_raw(r) == r
PublicRet(r) == IF r = "RetryPrompt" THEN "Interrupted" ELSE r

PromptInit ==
    /\ pc = "off"
    /\ bot = IdleBot
    /\ t = "nil"
    /\ command = ""
    /\ args = << >>
    /\ isPlugin = FALSE
    /\ plugin = "nil"
    /\ isJob = FALSE
    /\ verbose = FALSE
    /\ interactive = TRUE
    /\ ptype = "plugCommand"
    /\ ret = "Normal"
    /\ errString = ""
    /\ runIndex = 0
    /\ histStore = [NextIndex |-> 0, Histories |-> << >>]
    /\ storedParams = NoStoredParams
    /\ hostEnv = EmptyEnv
    /\ addCalls = 0
    /\ lastAdd = ""
    /\ trace = << >>
    /\ botRunID = 0
    /\ activeRobots = [i \in {} |-> "nil"]
    /\ rpc = [r \in RunNames |-> "idle"]
    /\ rid = [r \in RunNames |-> 0]
    /\ allocs = 0
    /\ envpc = "off"
    /\ envIn = NoEnvIn
    /\ replies = NoReplies
    /\ repliesLock = "free"
    /\ wpc = [w \in Waiters |-> "idle"]
    /\ wret = [w \in Waiters |-> ""]
    /\ wsend = [w \in Waiters |-> "nil"]
    /\ prompted = [w \in Waiters |-> 0]
    /\ dpending = << >>
    /\ msgs = 0
    /\ reqOrder = << >>
    /\ resolved = << >>
    /\ wfired = [w \in Waiters |-> FALSE]
    /\ schedItems = << >>
    /\ currentTasks = "v1"
    /\ schedMutex = "free"
    /\ taskRunner = 0
    /\ crons = << >>
    /\ sched = [c \in SchedCallers |-> IdleSched]
    /\ sruns = << >>
    /\ taskNameIDmap = NoIDs
    /\ addq = NoAdd
    /\ idc = [c \in IdCallers |-> IdleCaller]
    /\ idlog = << >>
    /\ \E op \in PromptOps :
          prm = [NoPrompt EXCEPT !.pc = "loop", !.op = op]
    /\ lrun = NoLogRun
    /\ hist = NoHist
    /\ extask = NoExec

\* part_002 100-105: one iteration of the loop: promptInternal is called; on
\* RetryPrompt the loop continues, on any other RetVal the operation returns
PromptAttempt ==
    /\ prm.pc = "loop"
    /\ prm.i < MaxPromptTries
    /\ \E in \in PromptInputs :
          LET a == PromptArgs(prm.op)
              o == promptInternal(a.user, a.channel, in)
          IN  prm' = [prm EXCEPT !.rep = o.rep, !.ret = o.ret,
                                 !.re = o.re, !.via = o.via, !.entry = o.entry,
                                 !.waits = @ + 1,
                                 !.rets = Append(@, o.ret),
                                 !.in = in,
                                 !.i = IF o.ret = "RetryPrompt" THEN @ + 1 ELSE @,
                                 !.pc = IF o.ret = "RetryPrompt" THEN "loop" ELSE "returned",
                                 !.out = IF o.ret = "RetryPrompt" THEN << >>
                                         ELSE <<o.rep, o.ret>>]
    /\ UNCHANGED <<pipeVars, regVars, runVars, envVars, replyVars, schedVars, histVars,
                   execVars, idVars, logVars, addVars>>

\* part_002 107-110: the loop has ended after MaxPromptTries iterations
PromptExhausted ==
    /\ prm.pc = "loop"
    /\ prm.i >= MaxPromptTries
    /\ prm' = [prm EXCEPT !.pc = "returned", !.out = <<prm.rep, PublicRet(prm.ret)>>]
    /\ UNCHANGED <<pipeVars, regVars, runVars, envVars, replyVars, schedVars, histVars,
                   execVars, idVars, logVars, addVars>>

PromptNext == PromptAttempt \/ PromptExhausted

PromptSpec == PromptInit /\ [][PromptNext]_vars

----------------------------------------------------------------------------
(* Robot.AddTask on its own: tasks of a run call it with every name and     *)
(* every cmdargs, on a queue that is empty or holds a task, and runPipeline *)
(* takes the head of the queue.                                             *)

AddInit ==
    /\ botRunID = 0
    /\ activeRobots = [i \in {} |-> "nil"]
    /\ rpc = [r \in RunNames |-> "idle"]
    /\ rid = [r \in RunNames |-> 0]
    /\ allocs = 0
    /\ envpc = "off"
    /\ envIn = NoEnvIn
    /\ replies = NoReplies
    /\ repliesLock = "free"
    /\ wpc = [w \in Waiters |-> "off"]
    /\ wret = [w \in Waiters |-> ""]
    /\ wsend = [w \in Waiters |-> "nil"]
    /\ prompted = [w \in Waiters |-> 0]
    /\ dpending = << >>
    /\ msgs = 0
    /\ reqOrder = << >>
    /\ resolved = << >>
    /\ wfired = [w \in Waiters |-> FALSE]
    /\ schedItems = << >>
    /\ currentTasks = "v1"
    /\ schedMutex = "free"
    /\ taskRunner = 0
    /\ crons = << >>
    /\ sched = [c \in SchedCallers |-> IdleSched]
    /\ sruns = << >>
    /\ taskNameIDmap = NoIDs
    /\ addq \in { NoAdd,
                 [NoAdd EXCEPT !.queue = << [Name |-> "echo", Command |-> "list",
                                             Arguments |-> << >>, task |-> "echo"] >>] }
    /\ idc = [c \in IdCallers |-> IdleCaller]
    /\ idlog = << >>
    /\ prm = NoPrompt
    /\ lrun = NoLogRun
    /\ hist = NoHist
    /\ extask = NoExec
    /\ pc = "off"
    /\ bot = IdleBot
    /\ t = "nil"
    /\ command = ""
    /\ args = << >>
    /\ isPlugin = FALSE
    /\ plugin = "nil"
    /\ isJob = FALSE
    /\ verbose = FALSE
    /\ interactive = FALSE
    /\ ptype = "plugCommand"
    /\ ret = "Normal"
    /\ errString = ""
    /\ runIndex = 0
    /\ histStore = [NextIndex |-> 0, Histories |-> << >>]
    /\ storedParams = NoStoredParams
    /\ hostEnv = EmptyEnv
    /\ addCalls = 0
    /\ lastAdd = ""
    /\ trace = << >>

\* robot.go 88-118: one call of Robot.AddTask on the run's queue
RobotAddTask ==
    /\ addq.calls < MaxAddTask
    /\ \E name \in TaskNames \cup {"nosuch"}, cmdargs \in CmdArgs :
          LET res == AddTask(addq.queue, name, cmdargs)
          IN  addq' = [calls |-> addq.calls + 1, queue |-> res.queue, name |-> name,
                       cmdargs |-> cmdargs, ret |-> res.ret]
    /\ UNCHANGED <<pipeVars, regVars, runVars, envVars, replyVars, schedVars, histVars,
                   execVars, idVars, promptVars, logVars>>

\* robot.go 560-575: runPipeline takes the next task from the head of the queue
TakeNextTask ==
    /\ addq.queue # << >>
    /\ addq' = [addq EXCEPT !.queue = Tail(@)]
    /\ UNCHANGED <<pipeVars, regVars, runVars, envVars, replyVars, schedVars, histVars,
                   execVars, idVars, promptVars, logVars>>

AddNext == RobotAddTask \/ TakeNextTask

AddSpec == AddInit /\ [][AddNext]_vars

----------------------------------------------------------------------------
(* An external task of a run with a history logger: callTask 741-771, and what
   runPipeline does with the logger next. lines[s] is the number of lines the
   process writes to stream s; failAt[s] = k > 0 says that reading the k-th
   line fails (as for a line longer than the scanner's buffer), 0 that no
   read fails. *)

LogLine(s, n) == [kind |-> IF s = "stdout" THEN "OUT" ELSE "ERR", n |-> n]
LogMark(kind) == [kind |-> kind, n |-> 0]

\* callTask 744 and 752: scanner.Scan() gives a line, or false at the end of
\* the stream and on a read error alike
ScanResult(lr, s) ==
    IF lr.read[s] = lr.lines[s] THEN "eof"
    ELSE IF lr.failAt[s] = lr.read[s] + 1 THEN "error"
    ELSE "line"

LogInit ==
    /\ pc = "off"
    /\ bot = IdleBot
    /\ t = "nil"
    /\ command = ""
    /\ args = << >>
    /\ isPlugin = FALSE
    /\ plugin = "nil"
    /\ isJob = FALSE
    /\ verbose = FALSE
    /\ interactive = TRUE
    /\ ptype = "plugCommand"
    /\ ret = "Normal"
    /\ errString = ""
    /\ runIndex = 0
    /\ histStore = [NextIndex |-> 0, Histories |-> << >>]
    /\ storedParams = NoStoredParams
    /\ hostEnv = EmptyEnv
    /\ addCalls = 0
    /\ lastAdd = ""
    /\ trace = << >>
    /\ botRunID = 0
    /\ activeRobots = [i \in {} |-> "nil"]
    /\ rpc = [r \in RunNames |-> "idle"]
    /\ rid = [r \in RunNames |-> 0]
    /\ allocs = 0
    /\ envpc = "off"
    /\ envIn = NoEnvIn
    /\ replies = NoReplies
    /\ repliesLock = "free"
    /\ wpc = [w \in Waiters |-> "idle"]
    /\ wret = [w \in Waiters |-> ""]
    /\ wsend = [w \in Waiters |-> "nil"]
    /\ prompted = [w \in Waiters |-> 0]
    /\ dpending = << >>
    /\ msgs = 0
    /\ reqOrder = << >>
    /\ resolved = << >>
    /\ wfired = [w \in Waiters |-> FALSE]
    /\ schedItems = << >>
    /\ currentTasks = "v1"
    /\ schedMutex = "free"
    /\ taskRunner = 0
    /\ crons = << >>
    /\ sched = [c \in SchedCallers |-> IdleSched]
    /\ sruns = << >>
    /\ taskNameIDmap = NoIDs
    /\ addq = NoAdd
    /\ idc = [c \in IdCallers |-> IdleCaller]
    /\ idlog = << >>
    /\ prm = NoPrompt
    /\ \E ls \in [Streams -> 0..MaxLines], fs \in [Streams -> 0..MaxLines] :
          /\ \A s \in Streams : fs[s] <= ls[s]
          /\ lrun = [NoLogRun EXCEPT !.pc = "closeLoop", !.lines = ls, !.failAt = fs,
                                     !.rpc = [s \in Streams |-> "scan"]]
    /\ hist = NoHist
    /\ extask = NoExec

\* callTask 742-748 and 750-756: one turn of a reader's loop: a line goes to
\* the logger, or the loop ends
ReaderScan(s) ==
    /\ lrun.rpc[s] = "scan"
    /\ IF ScanResult(lrun, s) = "line"
       THEN lrun' = [lrun EXCEPT !.read[s] = @ + 1,
                                 !.log = Append(@, LogLine(s, lrun.read[s] + 1))]
       ELSE lrun' = [lrun EXCEPT !.rpc[s] = "send"]
    /\ UNCHANGED <<pipeVars, regVars, runVars, envVars, replyVars, schedVars, histVars,
                   execVars, idVars, promptVars, addVars>>

\* callTask 748, 756 and 759-769: a reader's send on closed meets the receive
\* of the closeLoop; the second one ends the loop
CloseSignal(s) ==
    /\ lrun.rpc[s] = "send"
    /\ lrun.pc = "closeLoop"
    /\ lrun' = [lrun EXCEPT !.rpc[s] = "exit",
                             !.halfClosed = TRUE,
                             !.pc = IF lrun.halfClosed THEN "wait" ELSE "closeLoop"]
    /\ UNCHANGED <<pipeVars, regVars, runVars, envVars, replyVars, schedVars, histVars,
                   execVars, idVars, promptVars, addVars>>

\* callTask 771-788: cmd.Wait() and the return
ProcessWait ==
    /\ lrun.pc = "wait"
    /\ lrun' = [lrun EXCEPT !.pc = "returned"]
    /\ UNCHANGED <<pipeVars, regVars, runVars, envVars, replyVars, schedVars, histVars,
                   execVars, idVars, promptVars, addVars>>

\* callTask 605-612 of the next task of the chain: its section starts
NextSection ==
    /\ lrun.pc = "returned"
    /\ lrun' = [lrun EXCEPT !.pc = "next", !.log = Append(@, LogMark("SECTION"))]
    /\ UNCHANGED <<pipeVars, regVars, runVars, envVars, replyVars, schedVars, histVars,
                   execVars, idVars, promptVars, addVars>>

\* runPipeline 578-581: the chain is over, the logger is closed
LoggerClose ==
    /\ lrun.pc \in {"returned", "next"}
    /\ lrun' = [lrun EXCEPT !.pc = "closed", !.log = Append(@, LogMark("CLOSE"))]
    /\ UNCHANGED <<pipeVars, regVars, runVars, envVars, replyVars, schedVars, histVars,
                   execVars, idVars, promptVars, addVars>>

LogNext ==
    \/ \E s \in Streams : ReaderScan(s)
    \/ \E s \in Streams : CloseSignal(s)
    \/ ProcessWait
    \/ NextSection
    \/ LoggerClose

LogSpec == LogInit /\ [][LogNext]_vars

----------------------------------------------------------------------------
(* Properties of a pipeline run, stated on its trace *)

Range(q) == { q[i] : i \in 1..Len(q) }
IsPrefix(a, b) == Len(a) <= Len(b) /\ SubSeq(b, 1, Len(a)) = a
TaskCmd(ev) == <<ev.task, IF TaskTable[ev.task].kind = "plugin" THEN ev.cmd ELSE "run">>

RECURSIVE Project(_, _)
\* the tasks (with their commands) of the events of the kinds es, in order
Project(q, es) ==
    IF q = << >> THEN << >>
    ELSE IF Head(q).e \in es THEN <<TaskCmd(Head(q))>> \o Project(Tail(q), es)
    ELSE Project(Tail(q), es)

\* the tasks queued in the run: the starting task, then the AddTask calls that returned Ok
Queued == Project(trace, {"start", "add"})
\* the tasks handed to callTask
Dispatched == Project(trace, {"call"})

RunOver == pc \in {"done", "crashed"}
AllReturnedNormal == \A i \in 1..Len(trace) : trace[i].e = "return" => trace[i].res = "Normal"
CheckDenied(ev) ==
    \/ ev.e \in {"auth", "elev"} /\ ev.res # "Success"
    \/ ev.e = "admin" /\ ev.res = "failed"
NoDenial == \A i \in 1..Len(trace) : ~CheckDenied(trace[i])

\* C1: the tasks of a run are dispatched in the order they were queued (the
\* starting task, then the AddTask calls, first in first out), and when the
\* run is over with every dispatched task having returned Normal and no
\* check having denied a task, every queued task has been dispatched once.
C1_FifoDispatch ==
    /\ IsPrefix(Dispatched, Queued)
    /\ (RunOver /\ AllReturnedNormal /\ NoDenial) => Dispatched = Queued

\* C2: once a dispatched task has returned an outcome other than Normal, no
\* task of the run is handed to callTask any more, whatever is still queued.
C2_HaltOnNonNormal ==
    \A i \in 1..Len(trace) :
        (trace[i].e = "return" /\ trace[i].res # "Normal")
            => \A j \in (i + 1)..Len(trace) : trace[j].e \notin {"call", "exec"}

C2_Witness ==
    /\ pc = "done"
    /\ Len(bot.nextTasks) > 0
    /\ \E i \in 1..Len(trace) : trace[i].e = "return" /\ trace[i].res = "Fail"

\* C4: when runPipeline has ended, whatever ended it, the run is no longer in
\* the run registry and a lookup of its id finds nothing; the run is in the
\* registry only between its registration and the end of runPipeline.
C4_Deregistered ==
    /\ RunOver => /\ getBotContextInt(bot.id) = "nil"
                  /\ \A i \in DOMAIN activeRobots : activeRobots[i] # "bot"
    /\ pc = "start" => \A i \in DOMAIN activeRobots : activeRobots[i] # "bot"

\* C11: in a run started by the scheduler no authorization check and no
\* elevation check is made, for the starting task and for every task added
\* with AddTask; the context has bypassSecurityChecks set throughout.
C11_ScheduledBypass ==
    ptype = "scheduled" =>
        /\ bot.bypassSecurityChecks
        /\ \A i \in 1..Len(trace) : trace[i].e \notin {"auth", "elev"}

\* a scheduled run that has dispatched a task added with AddTask and ended
C11_Witness ==
    /\ ptype = "scheduled"
    /\ pc = "done"
    /\ Len(Dispatched) >= 2
    /\ Len(Queued) >= 2

\* C17: a panic in a native handler ends that invocation with the outcome
\* Fail; no task is dispatched after it, and the run ends deregistered.
C17_PanicIsFail ==
    /\ \A i \in 1..Len(trace) :
          trace[i].e = "panic" =>
             /\ i < Len(trace) => trace[i + 1].e = "return" /\ trace[i + 1].res = "Fail"
             /\ \A j \in (i + 1)..Len(trace) : trace[j].e # "call"
    /\ (pc = "done" /\ \E i \in 1..Len(trace) : trace[i].e = "panic") =>
          getBotContextInt(bot.id) = "nil"

\* C23: the admin-command check of each task uses that task's own
\* AdminCommands and command: no admin command of a plugin is dispatched for
\* a non-administrator, no task is checked against the AdminCommands of
\* another task, and the check never faults.
C23_PerTaskAdminCheck ==
    /\ pc # "crashed"
    /\ \A i \in 1..Len(trace) :
          /\ (trace[i].e = "call" /\ AdminRequired(trace[i].task, trace[i].cmd))
                => CheckAdmin(bot.User)
          /\ trace[i].e = "admin" => AdminRequired(trace[i].task, trace[i].cmd)

\* the event after position i of the trace is an error message to the user
ErrAfter(i) ==
    i < Len(trace) /\ trace[i + 1].e = "msg" /\ trace[i + 1].res = "error"

\* the position of the latest return event of the trace, 0 if there is none
LastReturn ==
    LET rs == { i \in 1..Len(trace) : trace[i].e = "return" }
    IN  IF rs = {} THEN 0 ELSE CHOOSE i \in rs : \A j \in rs : j <= i

\* C26: the error message of a task is sent to the user exactly when the
\* task's outcome is not Normal, the message is not empty and the run is
\* interactive; after a Normal outcome no error message is sent, also when
\* the task produced one, and the chain ends only if nothing is queued.
\* (errString is the message of the latest return.)
C26_ErrorMessageDelivery ==
    /\ \A i \in 1..Len(trace) :
          trace[i].e = "return" =>
             /\ ErrAfter(i) => trace[i].res # "Normal" /\ interactive
             /\ i = LastReturn =>
                   /\ ErrAfter(i) <=>
                         (trace[i].res # "Normal" /\ errString # "" /\ interactive)
                   /\ ErrAfter(i) => trace[i + 1].cmd = errString
                   /\ (trace[i].res = "Normal" /\ i = Len(trace) /\ pc = "exit")
                         => bot.nextTasks = << >>
    /\ \A i \in 1..Len(trace) :
          (trace[i].e = "msg" /\ trace[i].res = "error") =>
             i > 1 /\ trace[i - 1].e = "return"

\* an interactive run: a task has written to stderr and exited 0, no message
\* was sent and the next task, which it had queued, is being called
C26_Witness ==
    /\ pc = "call"
    /\ interactive
    /\ LastReturn > 0
    /\ ret = "Normal" /\ errString = StderrMsg
    /\ ~ErrAfter(LastReturn)
    /\ t # trace[LastReturn].task

\* the number of callTask calls the run has made
Calls == Cardinality({ i \in 1..Len(trace) : trace[i].e = "call" })
GopherKeys == {"GOPHER_CHANNEL", "GOPHER_USER", "GOPHER_PROTOCOL"}

\* C28: a disabled task handed to callTask is not run (no handler call, no
\* process), the outcome is ConfigurationError and ends the chain, and no
\* message to the user carries the task's internal disabled reason.
C28_DisabledNotExposed ==
    /\ \A i \in 1..Len(trace) :
          (trace[i].e = "call" /\ TaskTable[trace[i].task].Disabled) =>
             /\ i < Len(trace) =>
                   trace[i + 1].e = "return" /\ trace[i + 1].res = "ConfigurationError"
             /\ \A j \in (i + 1)..Len(trace) : trace[j].e \notin {"call", "exec", "section"}
    /\ \A i \in 1..Len(trace) :
          (trace[i].e = "msg" /\ trace[i].res = "error") => trace[i].cmd # DisabledMsg

\* the messages of a kind that runPipeline has sent
Msgs(kind) == { i \in 1..Len(trace) : trace[i].e = "msg" /\ trace[i].res = kind }
\* the task whose return or whose check was the latest of the run
LatestTask ==
    LET is == { i \in 1..Len(trace) : trace[i].e \in {"return", "auth", "elev", "admin"} }
    IN  trace[CHOOSE i \in is : \A j \in is : j <= i].task

\* C27: a run that has ended has sent one failure report, with the task that
\* failed and the run index, if it is a job's and its outcome is not Normal,
\* and none otherwise; one completion announcement if it is verbose and its
\* outcome is Normal, and none otherwise; never both; and a report or an
\* announcement is sent only when the run is no longer registered.
C27_EndOfRunMessages ==
    /\ pc = "done" =>
          /\ Cardinality(Msgs("failed")) = (IF isJob /\ ret # "Normal" THEN 1 ELSE 0)
          /\ Cardinality(Msgs("finished")) = (IF verbose /\ ret = "Normal" THEN 1 ELSE 0)
          /\ \A i \in Msgs("failed") :
                trace[i].task = LatestTask /\ trace[i].cmd = runIndex
          /\ \A i \in Msgs("finished") :
                trace[i].task = bot.pipeName /\ trace[i].cmd = runIndex
    /\ Cardinality(Msgs("failed") \cup Msgs("finished")) <= 1
    /\ Msgs("failed") \cup Msgs("finished") # {} =>
          /\ pc = "done"
          /\ getBotContextInt(bot.id) = "nil"

\* a verbose job whose second task has failed: the failure is reported
C27_Witness ==
    /\ pc = "done"
    /\ isJob /\ verbose /\ ret # "Normal"
    /\ Calls = 2
    /\ Msgs("failed") # {}
    /\ runIndex > 0

\* C22: the environment of an external process: the first task of the run
\* gets no per-task merge; a later one gets the stored parameters of its own
\* namespace for the keys not already set, whatever ran before it.
C22_MergeAfterFirst ==
    (pc = "running" /\ trace[Len(trace)].e = "exec" /\ trace[Len(trace)].res = "external") =>
        LET sp == storedParams[TaskTable[t].NameSpace]
        IN  IF Calls = 1
            THEN DOMAIN bot.cmdEnv = DOMAIN bot.environment \cup GopherKeys
            ELSE sp.exists =>
                   \A k \in DOMAIN sp.env :
                      /\ k \in DOMAIN bot.cmdEnv
                      /\ k \notin DOMAIN bot.environment \cup GopherKeys =>
                            bot.cmdEnv[k] = sp.env[k]

\* the run started with a plugin command that is one of the plugin's
\* AdminCommands, for a user who is not an administrator
AdminOnlyStart ==
    /\ pc # "start"
    /\ TaskTable[trace[1].task].kind = "plugin"
    /\ trace[1].cmd \in Range(TaskTable[trace[1].task].AdminCommands)
    /\ bot.User \notin Range(adminUsers)

\* C9: a plugin's admin command invoked by a non-administrator is never
\* invoked (no callTask, no handler or process, no authorization or elevation
\* check); the run sends exactly one denial message and ends with Fail.
C9_AdminDenied ==
    AdminOnlyStart =>
        /\ \A i \in 1..Len(trace) : trace[i].e \notin {"call", "exec", "auth", "elev"}
        /\ pc \in {"loop", "exit", "done"}
        /\ pc \in {"exit", "done"} =>
              /\ ret = "Fail"
              /\ Cardinality({ i \in 1..Len(trace) :
                                  trace[i].e = "msg" /\ trace[i].res = "denied" }) = 1

C9_Witness == AdminOnlyStart /\ pc = "done"

\* elevation has been granted in the run before position i of the trace
ElevatedBefore(i) ==
    \E k \in 1..(i - 1) : trace[k].e = "elev" /\ trace[k].res = "Success" /\ trace[k].flag

\* C10: in a run that is not security-bypassed every task handed to callTask
\* had its authorization checked with Success just before and, unless
\* elevation was already granted in the run, its elevation checked with Success
\* after the authorization; after a check that did not return Success no
\* task is dispatched any more and the run ends with Fail.
C10_ChecksBeforeDispatch ==
    ~bot.bypassSecurityChecks =>
        /\ \A i \in 1..Len(trace) :
              trace[i].e = "call" =>
                 \E a \in 1..(i - 1) :
                    /\ trace[a].e = "auth" /\ trace[a].res = "Success"
                    /\ trace[a].task = trace[i].task
                    /\ IF ElevatedBefore(a)
                       THEN a = i - 1
                       ELSE /\ a = i - 2
                            /\ trace[i - 1].e = "elev" /\ trace[i - 1].res = "Success"
                            /\ trace[i - 1].task = trace[i].task
        /\ \A i \in 1..Len(trace) :
              (trace[i].e \in {"auth", "elev"} /\ trace[i].res # "Success") =>
                 /\ \A j \in (i + 1)..Len(trace) : trace[j].e \notin {"call", "exec", "auth", "elev"}
                 /\ pc \in {"exit", "done"}
                 /\ ret = "Fail"

C10_Witness ==
    /\ pc = "done"
    /\ ~bot.bypassSecurityChecks
    /\ Len(bot.nextTasks) > 0
    /\ \E i \in 1..Len(trace) : trace[i].e = "call"
    /\ \E i \in 1..Len(trace) : trace[i].e = "elev" /\ trace[i].res # "Success" /\ ElevatedBefore(i) = FALSE
    /\ \E i \in 1..Len(trace) : trace[i].e = "elev" /\ trace[i].res = "Success"

----------------------------------------------------------------------------
(* Properties of the run registry *)

\* C3: under every interleaving of registerActive calls, a run never gets the
\* id 0, no two runs that hold an id at the same time hold the same one, and
\* a run in the registry is found under its own id.
C3_UniqueNonZeroIDs ==
    /\ \A r \in RunNames : rpc[r] \in {"allocated", "active"} => rid[r] # 0
    /\ 0 \notin DOMAIN activeRobots
    /\ \A r1, r2 \in RunNames :
          (r1 # r2 /\ rpc[r1] # "idle" /\ rpc[r2] # "idle") => rid[r1] # rid[r2]
    /\ \A r \in RunNames : rpc[r] = "active" => getBotContextInt(rid[r]) = r

\* the counter has passed 0 while two other runs were in the registry
C3_Witness ==
    \E r1, r2, r3 \in RunNames :
        /\ rpc[r1] = "active" /\ rid[r1] = 1
        /\ rpc[r2] = "active" /\ rid[r2] = 0 - 1
        /\ rpc[r3] = "allocated" /\ rid[r3] = 2
        /\ botRunID = 2

----------------------------------------------------------------------------
(* Properties of the environment assembly *)

ParamNames(ps) == { ps[i].Name : i \in 1..Len(ps) }
\* the value a key was pre-set to: that of the entry's last parameter of the name
PresetValue(k) ==
    LET is == { i \in 1..Len(envIn.tsParameters) : envIn.tsParameters[i].Name = k }
    IN  envIn.tsParameters[CHOOSE i \in is : \A j \in is : j <= i].Value
PresetKeys == IF envIn.isJob THEN ParamNames(envIn.tsParameters) ELSE {}
JobKeys == IF envIn.isJob THEN ParamNames(envIn.jobParameters) ELSE {}
StoredKeys == IF storedParams["build"].exists THEN DOMAIN storedParams["build"].env ELSE {}

\* C8: after the assembly a pre-set key has its pre-set value, whatever the
\* job's fixed parameters, the stored parameters and the host define for it;
\* and a key that only the stored parameters and the pass-through list
\* define has the stored value.
C8_EnvPrecedence ==
    envpc = "done" =>
        /\ \A k \in PresetKeys :
              k \in DOMAIN bot.environment /\ bot.environment[k] = PresetValue(k)
        /\ \A k \in (StoredKeys \cap Range(envPassThrough)) \ (PresetKeys \cup JobKeys) :
              k \in DOMAIN bot.environment
              /\ bot.environment[k] = storedParams["build"].env[k]

\* PATH is set in all four layers, HOME is stored and passed through only
C8_Witness ==
    /\ envpc = "done"
    /\ "PATH" \in PresetKeys \cap JobKeys \cap StoredKeys \cap DOMAIN hostEnv
    /\ "HOME" \in (StoredKeys \cap DOMAIN hostEnv) \ (PresetKeys \cup JobKeys)
    /\ \E i \in 1..Len(envIn.jobParameters) :
          /\ envIn.jobParameters[i].Name = "PATH"
          /\ envIn.jobParameters[i].Value # PresetValue("PATH")

\* the value the job's fixed parameters give a key: that of the first
\* parameter of the name
JobValue(k) ==
    LET is == { i \in 1..Len(envIn.jobParameters) : envIn.jobParameters[i].Name = k }
    IN  envIn.jobParameters[CHOOSE i \in is : \A j \in is : i <= j].Value

\* C25 as claimed: the layers rank, lowest first, job fixed parameters,
\* stored parameters, host pass-through, pre-set parameters; a key that is a
\* job fixed parameter and a stored one, and is not pre-set, ends with the
\* stored value.
C25_StoredOverJob ==
    envpc = "done" =>
        \A k \in (JobKeys \cap StoredKeys) \ PresetKeys :
            bot.environment[k] = storedParams["build"].env[k]

\* C25 as amended: the layers rank, highest first, pre-set parameters, job
\* fixed parameters, stored parameters, host pass-through; every key of the
\* final environment has the value of the highest layer that defines it, so
\* a key that is a job fixed parameter and a stored one, and is not pre-set,
\* ends with the job's value.
C25_LayerPrecedence ==
    envpc = "done" =>
        /\ DOMAIN bot.environment =
              PresetKeys \cup JobKeys \cup StoredKeys \cup Range(envPassThrough)
        /\ \A k \in DOMAIN bot.environment :
              bot.environment[k] =
                 IF k \in PresetKeys THEN PresetValue(k)
                 ELSE IF k \in JobKeys THEN JobValue(k)
                 ELSE IF k \in StoredKeys THEN storedParams["build"].env[k]
                 ELSE Getenv(hostEnv, k)

\* "k" is a job fixed parameter and a stored one and is not pre-set; PATH is
\* in all four layers
C25_Witness ==
    /\ envpc = "done"
    /\ "k" \in (JobKeys \cap StoredKeys) \ PresetKeys
    /\ "PATH" \in PresetKeys \cap JobKeys \cap StoredKeys \cap DOMAIN hostEnv
    /\ bot.environment["k"] = JobValue("k")

----------------------------------------------------------------------------
(* Properties of the reply-wait table *)

\* the position of caller w in the order of the requests
ReqPos(w) == CHOOSE i \in 1..Len(reqOrder) : reqOrder[i] = w
Requested == Range(reqOrder)

\* C5: of the requests for one (user, channel), a later one is not prompted
\* until every earlier one has been resolved (replied to, interrupted or timed
\* out), so at most one prompt is active at a time, and the requests are
\* resolved in the order they were made.
C5_ReplyWaitFifo ==
    /\ \A w1 \in Requested, w2 \in Requested :
          (ReqPos(w1) < ReqPos(w2) /\ prompted[w2] > 0) => w1 \in Range(resolved)
    /\ Cardinality({ w \in Requested : prompted[w] > 0 /\ w \notin Range(resolved) }) <= 1
    /\ IsPrefix(resolved, reqOrder)

\* C7: every waiter in the reply table belongs to a caller that is still
\* inside promptWait; once all the callers have returned the table is empty.
C7_TableHoldsBlockedCallers ==
    /\ \A m \in DOMAIN replies : \A i \in 1..Len(replies[m]) :
          wpc[replies[m][i]] \notin {"idle", "returned"}
    /\ (\A w \in Waiters : wpc[w] \in {"idle", "returned"}) => DOMAIN replies = {}

\* C6: every caller of a prompt operation returns in the end, and returns
\* TimeoutExpired only after its timeout has fired.
C6_PromptReturns ==
    /\ [](\A w \in Waiters : wret[w] = "TimeoutExpired" => wfired[w])
    /\ \A w \in Waiters : (wpc[w] # "idle") ~> (wpc[w] = "returned")

\* C21: a waiter whose entry the dispatcher has removed to deliver it a reply
\* leaves its wait only by reading that reply and returning its outcome, also
\* when its timeout fires first; it does not return TimeoutExpired.
C21_RaceReadsReply ==
    [][\A w \in Waiters : \A i \in 1..Len(dpending) :
          ( /\ dpending[i].to = w
            /\ dpending[i].reply.disposition # "retryPrompt"
            /\ wpc[w] \in {"select", "raceRead"}
            /\ wpc'[w] \notin {"select", "raceRead"} )
          => /\ wpc'[w] = "returned"
             /\ wret'[w] = ProcessReply(dpending[i].reply)]_vars

\* caller w reads a retryPrompt from its channel in this step
ReadsRetry(w) ==
    /\ wpc[w] \in {"select", "raceRead"}
    /\ \/ /\ dpending # << >>
          /\ Head(dpending).to = w
          /\ Head(dpending).reply.disposition = "retryPrompt"
          /\ dpending' = Tail(dpending)
       \/ \E v \in Waiters : wpc[v] = "sendRetry" /\ wsend[v] = w /\ wpc'[v] = "returned"

\* C24: a waiter that was queued without being prompted and reads a
\* retryPrompt sends its own prompt and is the head of the matcher's entry
\* when it waits again.
C24_RetryPromptsAsHead ==
    [][\A w \in Waiters :
          (prompted[w] = 0 /\ ReadsRetry(w)) =>
             /\ prompted'[w] = 1
             /\ "m" \in DOMAIN replies'
             /\ replies'["m"][1] = w]_vars

\* C29: no connector send is made with the reply-table lock held: the step
\* in which a new head waiter's prompt goes to the connector starts with the
\* lock not held by that waiter.
C29_NoSendUnderLock ==
    [][\A w \in Waiters :
          (wpc[w] = "prompting" /\ wpc'[w] # "prompting") => repliesLock # w]_vars

\* the list of waiters without the waiter w
Without(waitlist, w) == SelectSeq(waitlist, LAMBDA x : x # w)

\* C36: a timeout of w that finds an entry for the matcher removes from the
\* table the waiter w and no other, and directs the retryPrompt to the
\* waiter that is the head afterwards, never to w itself or to a waiter
\* just removed; this for w the head, w queued, and w not in the entry.
C36_TimeoutRemovesSelf ==
    [][\A w \in Waiters :
          ( /\ wpc[w] = "select"
            /\ ~wfired[w] /\ wfired'[w]
            /\ "m" \in DOMAIN replies ) =>
             LET rest == Without(replies["m"], w)
             IN  /\ IF rest = << >> THEN "m" \notin DOMAIN replies'
                    ELSE "m" \in DOMAIN replies' /\ replies'["m"] = rest
                 /\ wsend'[w] # w
                 /\ wsend'[w] # "nil" =>
                       /\ "m" \in DOMAIN replies'
                       /\ wsend'[w] = replies'["m"][1]]_vars

\* C40: when the send of the prompt for an idle matcher fails, the call
\* returns the connector's outcome in that step, with no entry made for the
\* matcher and the lock of the table released; and a call that finds no
\* entry, as the next call after a failed send does, goes on to prompt as a
\* new head.
C40_FailedSendLeavesIdle ==
    [][\A w \in Waiters :
          /\ (wpc[w] = "prompting" /\ wpc'[w] = "returned") =>
                /\ wret'[w] \in SendRetVals \ {"Ok"}
                /\ DOMAIN replies' = {}
                /\ repliesLock' = "free"
                /\ prompted'[w] = 0
          /\ (wpc[w] = "prompting" /\ wpc'[w] # "prompting") =>
                wpc'[w] \in {"returned", "select"}
          /\ (wpc[w] = "idle" /\ wpc'[w] # "idle" /\ DOMAIN replies = {}) =>
                /\ wpc'[w] = "prompting"
                /\ repliesLock' = w]_vars

\* a caller whose send failed has returned the connector's outcome, and a
\* later caller has been prompted and is the head of the entry
C40_Witness ==
    \E w, v \in Waiters :
        /\ wpc[w] = "returned"
        /\ wret[w] = "ChannelNotFound"
        /\ \E i, j \in 1..Len(reqOrder) : i < j /\ reqOrder[i] = w /\ reqOrder[j] = v
        /\ prompted[v] = 1
        /\ "m" \in DOMAIN replies
        /\ replies["m"][1] = v

----------------------------------------------------------------------------
(* Properties of the scheduler *)

\* the item at position i of an instance's list names a task that its task
\* list has and that is not disabled
Schedulable(c, i) ==
    /\ c.scheduled[i].Name \in DOMAIN TaskTables[c.tasks]
    /\ ~TaskTables[c.tasks][c.scheduled[i].Name].Disabled
\* the loop of the call that made instance h is over
LoopDone(h) == ~(h = taskRunner /\ schedMutex # "free")

\* C12: an instance gets no entry for an item whose task is missing or
\* disabled, and once the loop is over it has an entry for every other item;
\* no run is ever started for a disabled task.
C12_SkipMissingAndDisabled ==
    /\ \A h \in DOMAIN crons :
          /\ \A e \in DOMAIN crons[h].entries :
                /\ Schedulable(crons[h], crons[h].entries[e].idx)
                /\ crons[h].entries[e].task.name =
                      crons[h].scheduled[crons[h].entries[e].idx].Name
          /\ LoopDone(h) =>
                \A i \in DOMAIN crons[h].scheduled :
                   Schedulable(crons[h], i) =>
                      \E e \in DOMAIN crons[h].entries : crons[h].entries[e].idx = i
    /\ \A r \in DOMAIN sruns : ~TaskAt(sruns[r].run.task).Disabled

\* two items name the disabled task "off", the third is scheduled and has fired
C12_Witness ==
    /\ Len(schedItems) = 3
    /\ schedItems[1].Name = "off" /\ schedItems[2].Name = "off"
    /\ \E h \in DOMAIN crons :
          /\ crons[h].running
          /\ Len(crons[h].entries) = 1
          /\ \E r \in DOMAIN sruns : sruns[r].cron = h

\* C13: at most one instance is running; while a call builds a new instance
\* none is; with the lock free the handle is the instance started last.
C13_OneLiveSchedule ==
    /\ Cardinality({ h \in DOMAIN crons : crons[h].running }) <= 1
    /\ schedMutex # "free" => \A h \in DOMAIN crons : ~crons[h].running
    /\ schedMutex = "free" =>
          \/ taskRunner = 0 /\ crons = << >>
          \/ taskRunner = Len(crons) /\ crons[taskRunner].running

\* a second instance runs, the first one, which has fired, is stopped
C13_Witness ==
    /\ Len(crons) = 2
    /\ crons[2].running /\ ~crons[1].running
    /\ Len(crons[1].entries) > 0
    /\ \E r \in DOMAIN sruns : sruns[r].cron = 1

\* the item for which entry e of instance c was added
OwnItem(c, e) == c.scheduled[c.entries[e].idx]

\* C14: a run started by a firing has the task, the command, the arguments
\* and the parameters of the item its entry was added for.
C14_FiresOwnEntry ==
    \A r \in DOMAIN sruns :
       LET own == OwnItem(crons[sruns[r].cron], sruns[r].entry)
           run == sruns[r].run
           isP == TaskAt(run.task).kind = "plugin"
       IN  /\ run.task.name = own.Name
           /\ run.started = ~(isP /\ own.Command = "")
           /\ run.started =>
                 /\ run.command = (IF isP THEN own.Command ELSE "run")
                 /\ run.args = own.Arguments
                 /\ run.environment =
                       (IF isP THEN EmptyEnv ELSE SeedParameters(EmptyEnv, own.Parameters))

\* C19: the starting task of a run and every task queued in it are those its
\* names have in the task list the run was created with, whatever table is
\* in force now.
C19_SnapshotResolution ==
    \A r \in DOMAIN sruns :
       LET run == sruns[r].run
       IN  /\ run.task.ver = run.tasks
           /\ run.task.name \in DOMAIN TaskTables[run.tasks]
           /\ \A i \in DOMAIN run.nextTasks :
                 /\ run.nextTasks[i].Name \in DOMAIN TaskTables[run.tasks]
                 /\ run.nextTasks[i].task =
                       [ver |-> run.tasks, name |-> run.nextTasks[i].Name]

\* after a reload a run created before it queues "echo", which the table in
\* force no longer has
C19_Witness ==
    /\ currentTasks = "v2"
    /\ \E r \in DOMAIN sruns :
          /\ sruns[r].run.tasks = "v1"
          /\ \E i \in DOMAIN sruns[r].run.nextTasks :
                sruns[r].run.nextTasks[i].Name = "echo"

----------------------------------------------------------------------------
(* Properties of the stored history *)

\* C15: after M runs of a task that retains K histories, 0 < K < M, with
\* every checkout and update of the store succeeding, the store holds exactly
\* K entries: the run indexes M-K .. M-1, the K most recent, in ascending order.
C15_HistoryRetention ==
    (hist.allOk /\ 0 < hist.HistoryLogs /\ hist.HistoryLogs < hist.runs) =>
        /\ Len(histStore.Histories) = hist.HistoryLogs
        /\ \A i \in 1..Len(histStore.Histories) :
              histStore.Histories[i].LogIndex = hist.runs - hist.HistoryLogs + i - 1
        /\ histStore.NextIndex = hist.runs

\* a task retaining 2 histories after 4 runs
C15_Witness ==
    /\ hist.allOk
    /\ hist.HistoryLogs = 2
    /\ hist.runs = 4
    /\ Len(histStore.Histories) = 2

----------------------------------------------------------------------------
(* Properties of the call of an external task *)

\* the call met no failure up to and including the reading of the streams
MechanismOk ==
    /\ extask.in.pathOk /\ extask.in.interpOk /\ extask.in.stderrPipeOk
    /\ extask.in.stdoutPipeOk /\ extask.in.startOk /\ extask.in.readOk

\* C16: when the call has returned: with the process started and the streams
\* read without error the outcome is the exit code of the process, Normal
\* for exit code 0 and a chain-halting outcome for any other; with a failure
\* to resolve the path, find the interpreter, create a pipe, start the process
\* or read stderr the outcome is MechanismFail, whatever the exit code.
C16_ExitCodeIsOutcome ==
    extask.pc = "returned" =>
        /\ (MechanismOk /\ extask.in.wait.kind = "exit") =>
              /\ extask.retval = extask.in.wait.code
              /\ (extask.in.wait.code = 0) = (TaskRetValOf(extask.retval) = "Normal")
        /\ ~MechanismOk => TaskRetValOf(extask.retval) = "MechanismFail"

----------------------------------------------------------------------------
(* Properties of the task identities *)

IdEvents(e, plug) == { i \in 1..Len(idlog) : idlog[i].e = e /\ idlog[i].plug = plug }

\* C18: the first getTaskID call for a name stores exactly one ID for it,
\* every call for the name returns that ID, and an entry of the map is never
\* changed or removed.
C18_StableTaskID ==
    \A n \in IdNames :
        /\ Cardinality(IdEvents("store", n)) <= 1
        /\ \A i \in IdEvents("store", n) :
              /\ n \in DOMAIN taskNameIDmap.m
              /\ taskNameIDmap.m[n] = idlog[i].id
              /\ \A j \in IdEvents("return", n) : j > i /\ idlog[j].id = idlog[i].id
        /\ n \in DOMAIN taskNameIDmap.m => IdEvents("store", n) # {}
        /\ IdEvents("return", n) # {} => IdEvents("store", n) # {}

\* two callers have been given the ID of one name, one of them by the lookup
C18_Witness ==
    \E n \in IdNames : \E i, j \in IdEvents("return", n) :
        /\ i < j
        /\ idlog[i].c # idlog[j].c
        /\ idlog[j - 1].e = "call"

----------------------------------------------------------------------------
(* Properties of elevation within a run *)

\* the elevation checks that succeeded for a task that required elevation
Elevations ==
    { i \in 1..Len(trace) :
        trace[i].e = "elev" /\ trace[i].res = "Success" /\ trace[i].flag }

\* C33: after an elevation check has succeeded for a task that required it,
\* no later task of the run has an elevation check, while every task that is
\* dispatched has passed its own authorization check; a check that succeeded
\* with no elevation required leaves the run not elevated, so the next task
\* that passes authorization is checked for elevation again.
C33_ElevateOnce ==
    /\ \A i \in Elevations : \A j \in (i + 1)..Len(trace) : trace[j].e # "elev"
    /\ bot.elevated <=> Elevations # {}
    /\ ~bot.bypassSecurityChecks =>
          \A i \in 1..Len(trace) :
              /\ trace[i].e = "call" =>
                    \E j \in 1..(i - 1) :
                        /\ trace[j].e = "auth"
                        /\ trace[j].task = trace[i].task
                        /\ trace[j].res = "Success"
                        /\ \A k \in (j + 1)..(i - 1) : trace[k].e = "elev"
              /\ ( /\ trace[i].e = "auth"
                   /\ trace[i].res = "Success"
                   /\ \A j \in Elevations : j > i ) =>
                    /\ i < Len(trace)
                    /\ trace[i + 1].e = "elev"
                    /\ trace[i + 1].task = trace[i].task

\* a task has been dispatched after an authorization check and without an
\* elevation check, an earlier task of the run having been elevated; and
\* before that a check that required no elevation was followed by another
C33_Witness ==
    \E i \in Elevations : \E h \in 1..(i - 1) : \E j \in (i + 1)..(Len(trace) - 1) :
        /\ trace[h].e = "elev" /\ trace[h].res = "Success" /\ ~trace[h].flag
        /\ trace[j].e = "auth"
        /\ trace[j + 1].e = "call"
        /\ trace[j].task = trace[j + 1].task

----------------------------------------------------------------------------
(* Properties of the lookup in the run registry *)

\* C34: while a run is registered, from registerActive before its first task
\* to deregister after its last, a lookup of its ID as a number or as a
\* string returns that run; a lookup of 0, of an ID that no run is
\* registered with, or of a string that does not parse returns nothing.
C34_RegistryLookup ==
    /\ \A r \in RunNames : rpc[r] = "active" =>
          /\ getBotContextInt(rid[r]) = r
          /\ getBotContextStr(ToString(rid[r])) = r
    /\ getBotContextInt(0) = "nil"
    /\ \A n \in RunIDs :
          (\A r \in RunNames : rpc[r] = "active" => rid[r] # n) =>
              getBotContextInt(n) = "nil"
    /\ \A str \in IdStrings : Atoi(str).err => getBotContextStr(str) = "nil"

----------------------------------------------------------------------------
(* Properties of the engine's variables in a task's environment *)

\* the environment of an external process that the run has started
HasProcessEnv == DOMAIN bot.cmdEnv # {}

\* the keys that a parameter layer of the run defines: the pre-set
\* parameters, the starting job's fixed parameters and the stored parameters
\* of its namespace
LayerKeys ==
    DOMAIN DynEnv(ptype, trace[1].task)
      \cup { TaskTable[trace[1].task].Parameters[i].Name :
               i \in 1..Len(TaskTable[trace[1].task].Parameters) }
      \cup DOMAIN storedParams[TaskTable[trace[1].task].NameSpace].env

\* C35: the environment of every external process has GOPHER_CHANNEL,
\* GOPHER_USER and GOPHER_PROTOCOL equal to the run's channel, user and
\* protocol, and that of the first task has GOPHER_CALLER_ID equal to the
\* run's ID, whatever the pre-set, fixed and stored parameters define for
\* these names.
C35_EngineVariables ==
    HasProcessEnv =>
        /\ GopherKeys \subseteq DOMAIN bot.cmdEnv
        /\ bot.cmdEnv["GOPHER_CHANNEL"] = "channel"
        /\ bot.cmdEnv["GOPHER_USER"] = bot.User
        /\ bot.cmdEnv["GOPHER_PROTOCOL"] = "protocol"
        /\ Calls = 1 =>
              /\ "GOPHER_CALLER_ID" \in DOMAIN bot.cmdEnv
              /\ bot.cmdEnv["GOPHER_CALLER_ID"] = ToString(bot.id)

\* the first task of a run is external, and the parameter layers of the run
\* define GOPHER_USER, GOPHER_CALLER_ID, GOPHER_CHANNEL and GOPHER_PROTOCOL
C35_Witness ==
    /\ HasProcessEnv
    /\ Calls = 1
    /\ pc = "running"
    /\ (GopherKeys \cup {"GOPHER_CALLER_ID"}) \subseteq LayerKeys
    /\ "GOPHER_USER" \in DOMAIN DynEnv(ptype, trace[1].task)

----------------------------------------------------------------------------
(* Properties of Robot.AddTask *)

\* C37: AddTask returns TaskNotFound for a name that the task list does not
\* have and MissingArguments for a plugin given no command or an empty one,
\* and then leaves the queue as it was; otherwise it returns Ok and has
\* appended one TaskSpec at the tail, for a job with the command "run" and
\* no arguments.
C37_AddTaskResults ==
    [][addq'.calls = addq.calls + 1 =>
          LET name == addq'.name
              ca   == addq'.cmdargs
              r    == addq'.ret
              q    == addq.queue
              q2   == addq'.queue
              noCommand == ca = << >> \/ ca[1] = ""
          IN  /\ r \in {"TaskNotFound", "MissingArguments", "Ok"}
              /\ r = "TaskNotFound" <=> name \notin TaskNames
              /\ r = "MissingArguments" <=>
                    (name \in TaskNames /\ TaskTable[name].kind = "plugin" /\ noCommand)
              /\ r # "Ok" => q2 = q
              /\ r = "Ok" =>
                    /\ Len(q2) = Len(q) + 1
                    /\ SubSeq(q2, 1, Len(q)) = q
                    /\ Last(q2).Name = name
                    /\ IF TaskTable[name].kind = "job"
                       THEN Last(q2).Command = "run" /\ Last(q2).Arguments = << >>
                       ELSE Last(q2).Command = ca[1] /\ Last(q2).Arguments = Tail(ca)]_vars

\* a job given arguments has been appended behind a plugin's command
C37_Witness ==
    /\ addq.ret = "Ok"
    /\ Len(addq.queue) = 2
    /\ TaskTable[addq.queue[1].Name].kind = "plugin"
    /\ TaskTable[addq.name].kind = "job"
    /\ addq.cmdargs # << >>
    /\ addq.queue[2] = [Name |-> addq.name, Command |-> "run", Arguments |-> << >>,
                        task |-> addq.name]

----------------------------------------------------------------------------
(* Properties of the run's process handle *)

\* C38: while a task of the run executes and the context holds a process
\* handle, the handle is the process of the executing task and taskName is
\* the name of that task, for an external task and for a native task that
\* follows an external one.
C38_HandleOfCurrentTask ==
    (pc = "running" /\ bot.osCmd # "nil") =>
        /\ bot.osCmd = t
        /\ bot.taskName = t

----------------------------------------------------------------------------
(* Properties of the history run index *)

\* the task keeps a history: robot.go 414
WithHistory == hist.HistoryLogs > 0 \/ hist.isJob
\* the runs whose entry reached the store
StoredRuns == { i \in 1..Len(hist.given) : hist.given[i].checkoutOk /\ hist.given[i].updateOk }
StoredBefore(i) == Cardinality({ j \in StoredRuns : j < i })

----------------------------------------------------------------------------
(* Properties of the public prompt operations *)

\* C20: a public prompt operation calls the internal wait at most 3 times,
\* repeats it only after RetryPrompt, and never returns RetryPrompt: after a
\* third RetryPrompt it returns Interrupted.
C20_BoundedRetry ==
    /\ prm.waits <= 3
    /\ Len(prm.rets) = prm.waits
    /\ \A k \in 1..(Len(prm.rets) - 1) : prm.rets[k] = "RetryPrompt"
    /\ prm.pc = "returned" =>
          /\ prm.out[2] # "RetryPrompt"
          /\ prm.rets # << >>
          /\ LET last == prm.rets[Len(prm.rets)]
             IN  IF last = "RetryPrompt"
                 THEN prm.waits = 3 /\ prm.out[2] = "Interrupted"
                 ELSE prm.out = <<prm.rep, last>>

\* the operation has returned Interrupted after three waits that all ended
\* in RetryPrompt
C20_Witness ==
    /\ prm.pc = "returned"
    /\ prm.waits = 3
    /\ prm.rets = <<"RetryPrompt", "RetryPrompt", "RetryPrompt">>
    /\ prm.out[2] = "Interrupted"

\* C31: a reply that is only "=" makes the prompt return UseDefaultValue and
\* a reply that is only "-" makes it return Interrupted, whatever the pattern
\* asked for; any other reply that does not match returns ReplyNotMatched and
\* a matching reply returns its text with Ok.
C31_SpecialReplies ==
    ( /\ prm.waits > 0
      /\ prm.entry
      /\ ~prm.in.timedOut
      /\ prm.in.arrival.disposition = "replied" ) =>
        LET text == prm.in.arrival.rep
            last == <<prm.rep, prm.ret>>
        IN  IF text = "=" THEN last = <<"", "UseDefaultValue">>
            ELSE IF text = "-" THEN last = <<"", "Interrupted">>
            ELSE IF DispatchMatched(prm.re, text) THEN last = <<text, "Ok">>
            ELSE last = <<"", "ReplyNotMatched">>

\* C32: a regexID with a capital first letter resolves only to a stock
\* pattern of that tag and any other only to a ReplyMatcher of the plugin
\* with that Label or Command; every documented stock tag resolves; and a
\* regexID that resolves to nothing returns MatcherNotFound with no prompt
\* sent and no entry made in the reply table.
C32_RegexResolution ==
    prm.waits > 0 =>
        LET id == prm.in.regexID
        IN  /\ stockRepliesReMatch(id) =>
                  \/ prm.re.nil
                  \/ \E i \in 1..Len(stockReplyList) :
                        /\ stockReplyList[i].repTag = id
                        /\ prm.re = Re(stockReplyList[i].repRegex)
            /\ ~stockRepliesReMatch(id) =>
                  \/ prm.re.nil
                  \/ \E i \in 1..Len(PluginReplyMatchers) :
                        /\ id \in {PluginReplyMatchers[i].Label,
                                   PluginReplyMatchers[i].Command}
                        /\ prm.re = PluginReplyMatchers[i].re
            /\ id \in DocumentedTags => ~prm.re.nil
            /\ prm.re.nil =>
                  /\ <<prm.rep, prm.ret>> = <<"", "MatcherNotFound">>
                  /\ prm.via = ""
                  /\ ~prm.entry

----------------------------------------------------------------------------
(* Properties of the logging of an external task *)

\* the lines of stream s that are in the log before every section mark and
\* close mark
LoggedFirst(s) ==
    { lrun.log[i].n : i \in { j \in 1..Len(lrun.log) :
          /\ lrun.log[j].kind = (IF s = "stdout" THEN "OUT" ELSE "ERR")
          /\ \A k \in 1..(j - 1) : lrun.log[k].kind \notin {"SECTION", "CLOSE"} } }

\* C30: callTask waits for the process only when both readers have reached
\* the end of their stream; every line of the task is in the log before the
\* next section and before the close; no reader is left blocked once the
\* invocation has returned.
C30_LoggedBeforeWait ==
    /\ lrun.pc \in {"wait", "returned", "next", "closed"} =>
          \A s \in Streams : lrun.rpc[s] = "exit" /\ lrun.read[s] = lrun.lines[s]
    /\ lrun.pc \in {"next", "closed"} =>
          \A s \in Streams : LoggedFirst(s) = 1..lrun.lines[s]

====
